---- MODULE Spec2Model ----
(***************************************************************************)
(* Model of the synchronization engine of the desktop application          *)
(* (desktop/src-tauri/src/api.rs) together with the parts of the local     *)
(* store (storage.rs) and of the row conversions (models.rs) it calls.     *)
(*                                                                         *)
(* One sync run (sync_data) is a sequential process; every remote call and *)
(* every storage call is one step.  The local store is the SQLite          *)
(* connection behind a tokio Mutex; the remote service is an external      *)
(* collaborator that keeps what is uploaded to it.                         *)
(***************************************************************************)
EXTENDS Integers, Sequences, FiniteSets, Bags, TLC

(***************************************************************************)
(* Bounds of the model.                                                    *)
(***************************************************************************)
\* Number of entity ids that may exist on either side before the first run.
NumIds == 2
\* The UI calls update_task at most this many times.
MaxUiCalls == 1
\* Number of sync_with_server invocations in the retry scenarios.
MaxRuns == 2
\* Number of remote or storage calls that may fail in the fault scenarios.
MaxFaults == 3

Ids == 1..NumIds
Collections == {"tasks", "sessions"}

(***************************************************************************)
(* Option<T>: None is the empty tuple, Some(x) the one-element tuple.      *)
(***************************************************************************)
None == << >>
Some(x) == << x >>
IsSome(o) == o # << >>
Unwrap(o) == o[1]

(***************************************************************************)
(* Enum conversions.  The store writes an enum with                        *)
(* format!("{:?}", v).to_lowercase() and reads it back with the match of   *)
(* From<TaskRow> / From<SessionRow>, whose spellings are the serde names.  *)
(***************************************************************************)
DebugLower(v) ==
  CASE v = "Pending" -> "pending"
    [] v = "InProgress" -> "inprogress"
    [] v = "Completed" -> "completed"
    [] v = "Cancelled" -> "cancelled"
    [] v = "Work" -> "work"
    [] v = "ShortBreak" -> "shortbreak"
    [] v = "LongBreak" -> "longbreak"
    [] v = "Ready" -> "ready"
    [] v = "Running" -> "running"
    [] v = "Paused" -> "paused"

TaskStatusFromRow(s) ==
  CASE s = "pending" -> "Pending"
    [] s = "in_progress" -> "InProgress"
    [] s = "completed" -> "Completed"
    [] s = "cancelled" -> "Cancelled"
    [] OTHER -> "Pending"

SessionTypeFromRow(s) ==
  CASE s = "work" -> "Work"
    [] s = "short_break" -> "ShortBreak"
    [] s = "long_break" -> "LongBreak"
    [] OTHER -> "Work"

SessionStateFromRow(s) ==
  CASE s = "ready" -> "Ready"
    [] s = "running" -> "Running"
    [] s = "paused" -> "Paused"
    [] s = "completed" -> "Completed"
    [] OTHER -> "Ready"

\* impl From<TaskRow> for Task
TaskFromRow(row) == [row EXCEPT !.status = TaskStatusFromRow(@)]

\* impl From<SessionRow> for PomodoroSession
SessionFromRow(row) ==
  [row EXCEPT !.session_type = SessionTypeFromRow(@),
              !.state = SessionStateFromRow(@)]

FromRow(c, row) == IF c = "tasks" THEN TaskFromRow(row) ELSE SessionFromRow(row)

(***************************************************************************)
(* Statements of the local store, as functions on a table (id -> row).     *)
(***************************************************************************)
\* The CreateTaskRequest sync_tasks builds from a remote task.
CreateTaskRequestOf(r) == [title |-> r.title, description |-> r.description]

\* The UpdateTaskRequest sync_tasks builds from a remote task.
UpdateTaskRequestOf(r) ==
  [title |-> Some(r.title),
   description |-> r.description,
   status |-> Some(r.status),
   completed_pomodoros |-> Some(r.completed_pomodoros)]

\* The UpdateSessionRequest sync_pomodoro_sessions builds from a remote session.
UpdateSessionRequestOf(r) ==
  [state |-> Some(r.state),
   remaining_seconds |-> Some(r.remaining_seconds),
   notes |-> r.notes]

\* create_task: the INSERT, with a fresh uuid and the wall-clock time.
InsertTaskRow(request, id, t) ==
  [id |-> id,
   title |-> request.title,
   description |-> request.description,
   status |-> "pending",
   completed_pomodoros |-> 0,
   created_at |-> t,
   updated_at |-> t]

\* u32 multiplication, computed on 16-bit halves: a * b modulo 2^32 (b below 2^15).
WrappingMul(a, b) ==
  LET lo == (a % 65536) * b
      hi == ((a \div 65536) * b) + (lo \div 65536)
  IN ((hi % 65536) * 65536) + (lo % 65536)

\* The product a * b does not fit in a u32.
MulOverflows(a, b) == ((a \div 65536) * b) + (((a % 65536) * b) \div 65536) >= 65536

\* create_pomodoro_session: the INSERT.
InsertSessionRow(session_type, duration_minutes, id, t) ==
  [id |-> id,
   session_type |-> DebugLower(session_type),
   state |-> "ready",
   duration_minutes |-> duration_minutes,
   remaining_seconds |-> WrappingMul(duration_minutes, 60),
   notes |-> None,
   created_at |-> t,
   updated_at |-> t]

\* Faulty variant of UpdateTaskRow: every column is written, a None as NULL.
UpdateTaskRowAllColumns(row, request, t) ==
  [row EXCEPT
     !.title = IF IsSome(request.title) THEN Unwrap(request.title) ELSE @,
     !.description = request.description,
     !.status = IF IsSome(request.status) THEN DebugLower(Unwrap(request.status)) ELSE @,
     !.completed_pomodoros =
        IF IsSome(request.completed_pomodoros) THEN Unwrap(request.completed_pomodoros) ELSE @,
     !.updated_at = t]

\* update_task: the dynamic UPDATE; a field is set only when the request has Some.
UpdateTaskRow(row, request, t) ==
  [row EXCEPT
     !.title = IF IsSome(request.title) THEN Unwrap(request.title) ELSE @,
     !.description = IF IsSome(request.description) THEN request.description ELSE @,
     !.status = IF IsSome(request.status) THEN DebugLower(Unwrap(request.status)) ELSE @,
     !.completed_pomodoros =
        IF IsSome(request.completed_pomodoros) THEN Unwrap(request.completed_pomodoros) ELSE @,
     !.updated_at = t]

\* update_pomodoro_session: the dynamic UPDATE.
UpdateSessionRow(row, request, t) ==
  [row EXCEPT
     !.state = IF IsSome(request.state) THEN DebugLower(Unwrap(request.state)) ELSE @,
     !.remaining_seconds =
        IF IsSome(request.remaining_seconds) THEN Unwrap(request.remaining_seconds) ELSE @,
     !.notes = IF IsSome(request.notes) THEN request.notes ELSE @,
     !.updated_at = t]

\* The row the reconciler's local create inserts for remote entity r.
CreatedRow(c, r, id, t) ==
  IF c = "tasks"
  THEN InsertTaskRow(CreateTaskRequestOf(r), id, t)
  ELSE InsertSessionRow(r.session_type, r.duration_minutes, id, t)

\* The row the reconciler's local update leaves for remote entity r.
UpdatedRow(c, row, r, t) ==
  IF c = "tasks"
  THEN UpdateTaskRow(row, UpdateTaskRequestOf(r), t)
  ELSE UpdateSessionRow(row, UpdateSessionRequestOf(r), t)

\* UPDATE ... WHERE id = ?: no row, no change.
UpdateWhereId(table, c, r, t) ==
  IF r.id \in DOMAIN table
  THEN [table EXCEPT ![r.id] = UpdatedRow(c, @, r, t)]
  ELSE table

\* The remote service keeps an uploaded entity under the id it carries.
RemoteStore(coll, body) == (body.id :> body) @@ coll

(***************************************************************************)
(* The settings table: one (key, value) row per setting, the value a text. *)
(***************************************************************************)
\* The largest number of minutes a setting is taken to hold.
MaxMinutes == 60
MaxNotifications == 2

\* The keys in the order update_settings writes them.
SettingsKeys == << "work_duration_minutes", "theme" >>

\* u32::to_string.
U32ToString(n) == ToString(n)

\* value.parse().unwrap_or(default) for a u32.
ParseU32Or(text, default) ==
  IF \E n \in 0..MaxMinutes : ToString(n) = text
  THEN CHOOSE n \in 0..MaxMinutes : ToString(n) = text
  ELSE default

\* Settings::default().
SettingsDefault == [work_duration_minutes |-> 25, theme |-> "system"]

\* The settings_updates array of update_settings (and of initialize_default_settings).
SettingsPairs(settings) ==
  [k \in {"work_duration_minutes", "theme"} |->
     IF k = "work_duration_minutes"
     THEN U32ToString(settings.work_duration_minutes)
     ELSE settings.theme]

\* get_settings: the defaults, overridden by every row of a known key.
GetSettings(rows) ==
  [work_duration_minutes |->
     IF "work_duration_minutes" \in DOMAIN rows
     THEN ParseU32Or(rows["work_duration_minutes"], 25)
     ELSE SettingsDefault.work_duration_minutes,
   theme |-> IF "theme" \in DOMAIN rows THEN rows["theme"] ELSE SettingsDefault.theme]

\* Faulty variant of InsertOrReplaceFirst: INSERT OR IGNORE, a key that has a row keeps it.
InsertOrIgnoreFirst(rows, settings, j) ==
  LET written == { SettingsKeys[i] : i \in 1..j } \ DOMAIN rows
  IN [k \in DOMAIN rows \cup written |->
        IF k \in written THEN SettingsPairs(settings)[k] ELSE rows[k]]

\* update_settings after its first j INSERT OR REPLACE statements.
InsertOrReplaceFirst(rows, settings, j) ==
  LET written == { SettingsKeys[i] : i \in 1..j }
  IN [k \in DOMAIN rows \cup written |->
        IF k \in written THEN SettingsPairs(settings)[k] ELSE rows[k]]

(***************************************************************************)
(* State.                                                                  *)
(***************************************************************************)
VARIABLES
  store,        \* the local SQLite tables: tasks, sessions (id -> row), settings
  dbLock,       \* StorageManager.db, the tokio Mutex: "free" or "held"
  server,       \* the remote service: tasks, sessions (id -> entity), settings
  now,          \* the wall clock read by Utc::now()
  nextUuid,     \* the next id Uuid::new_v4() hands out
  phase,        \* where sync_data is: idle, tasks, sessions, settings, ret, done
  pc,           \* where the running phase is: list, fetch, loop, readback, upload, post, apply
  frame,        \* locals of sync_tasks / sync_pomodoro_sessions, per collection
  local_settings,  \* local of sync_settings
  remote_settings, \* local of sync_settings
  acc,          \* locals of sync_data: synced_tasks, synced_sessions, conflicts, errors
  results,      \* the SyncResults returned so far, oldest first
  reqs,         \* history: bag of the remote requests sent by the current run
  ops,          \* history: bag of the store statements executed by the current run
  outcome,      \* history: per phase of the current run, none / ok / err
  started,      \* history: the phases the current run has started, in order
  atStart,      \* history: store, server, clock and next uuid when the current run started
  runsLeft,     \* environment: invocations of sync_with_server still to come
  ui,           \* the UI's update_task command: where it is, its task_id, calls to come
  faultsLeft,   \* environment: calls that may still fail
  scheduled_notifications, \* NotificationManager's map: notification id -> notification
  app_handle,   \* NotificationManager.app_handle is Some
  delivery,     \* the spawned delivery tasks: notification id -> sleeping / deliver / done
  shown,        \* history: notification id -> times it was delivered
  scheduling,   \* the schedule call in flight: its notification, stored but not yet spawned
  cancelled,    \* history: ids a cancel call removed before their delivery task woke
  nextNotificationId  \* the next id Uuid::new_v4() hands out to a notification

svars == << store, dbLock, server, now, nextUuid, phase, pc, frame, local_settings,
           remote_settings, acc, results, reqs, ops, outcome, started, atStart, runsLeft, ui, faultsLeft >>

\* The variables of the NotificationManager.
nvars == << scheduled_notifications, app_handle, delivery, shown, scheduling, cancelled,
           nextNotificationId >>

vars == << svars, nvars >>

Phases == << "tasks", "sessions", "settings" >>

(***************************************************************************)
(* Inputs: the entities either side may hold before the first run.         *)
(***************************************************************************)
RemoteTask(id, k) ==
  IF k = 1
  THEN [id |-> id, title |-> "a", description |-> None, status |-> "Pending",
        completed_pomodoros |-> 1, created_at |-> 1, updated_at |-> 1]
  ELSE [id |-> id, title |-> "b", description |-> Some("d"), status |-> "InProgress",
        completed_pomodoros |-> 2, created_at |-> 1, updated_at |-> 2]

\* Rows as the store's own statements leave them: status in the written spelling.
LocalTaskRow(id, k) ==
  CASE k = 1 -> [id |-> id, title |-> "a", description |-> None, status |-> "pending",
                 completed_pomodoros |-> 1, created_at |-> 1, updated_at |-> 1]
    [] k = 2 -> [id |-> id, title |-> "b", description |-> Some("d"), status |-> "inprogress",
                 completed_pomodoros |-> 1, created_at |-> 1, updated_at |-> 1]
    [] OTHER -> [id |-> id, title |-> "b", description |-> Some("d"), status |-> "completed",
                 completed_pomodoros |-> 2, created_at |-> 1, updated_at |-> 3]

RemoteSession(id, k) ==
  IF k = 1
  THEN [id |-> id, session_type |-> "Work", state |-> "Ready", duration_minutes |-> 25,
        remaining_seconds |-> 1500, notes |-> None, created_at |-> 1, updated_at |-> 1]
  ELSE [id |-> id, session_type |-> "ShortBreak", state |-> "Running", duration_minutes |-> 5,
        remaining_seconds |-> 200, notes |-> Some("n"), created_at |-> 1, updated_at |-> 2]

LocalSessionRow(id, k) ==
  CASE k = 1 -> [id |-> id, session_type |-> "work", state |-> "ready", duration_minutes |-> 25,
                 remaining_seconds |-> 1500, notes |-> None, created_at |-> 1, updated_at |-> 1]
    [] k = 2 -> [id |-> id, session_type |-> "work", state |-> "paused", duration_minutes |-> 25,
                 remaining_seconds |-> 700, notes |-> Some("n"), created_at |-> 1, updated_at |-> 1]
    [] OTHER -> [id |-> id, session_type |-> "work", state |-> "completed", duration_minutes |-> 25,
                 remaining_seconds |-> 0, notes |-> Some("n"), created_at |-> 1, updated_at |-> 3]

LocalRow(c, id, k) == IF c = "tasks" THEN LocalTaskRow(id, k) ELSE LocalSessionRow(id, k)
RemoteEntity(c, id, k) == IF c = "tasks" THEN RemoteTask(id, k) ELSE RemoteSession(id, k)

\* Every local table over the ids S: each id absent (0) or one of the three rows.
LocalTables(c, S) ==
  { [id \in {i \in S : ch[i] # 0} |-> LocalRow(c, id, ch[id])] : ch \in [S -> 0..3] }

\* Every remote collection over the ids S: each id absent (0) or one of the two entities.
RemoteColls(c, S) ==
  { [id \in {i \in S : ch[i] # 0} |-> RemoteEntity(c, id, ch[id])] : ch \in [S -> 0..2] }

Empty == [id \in {} |-> None]

\* How the service answers GET /sync/<collection>: the entities under the collection's
\* key, a body without that key, or the entities with the first one listed once more.
Shapes == {"list", "nokey", "repeat"}
Listed == [c \in Collections |-> "list"]

SettingsA == SettingsDefault
SettingsB == [work_duration_minutes |-> 50, theme |-> "dark"]

NoFrame ==
  [local_snap |-> Empty, remote_list |-> << >>, idx |-> 1, remaining |-> {},
   synced_count |-> 0, conflicts |-> 0]

\* The update_task command of the UI, not running, with n calls still to come.
UiIdle(n) == [pc |-> "idle", task_id |-> 0, left |-> n]

\* The UpdateTaskRequest the UI sends: a new title, nothing else.
UiUpdates == [title |-> Some("u"), description |-> None, status |-> None,
              completed_pomodoros |-> None]

NoAcc == [synced_tasks |-> 0, synced_sessions |-> 0, conflicts |-> 0, errors |-> << >>]

NotificationIds == 1..MaxNotifications

\* NotificationManager::new(): nothing scheduled, no app handle.
NotifyIdle ==
  /\ scheduled_notifications = Empty
  /\ app_handle = FALSE
  /\ delivery = [i \in NotificationIds |-> "none"]
  /\ shown = [i \in NotificationIds |-> 0]
  /\ scheduling = {}
  /\ cancelled = {}
  /\ nextNotificationId = 1

InitRest ==
  /\ dbLock = "free"
  /\ now = 10
  /\ nextUuid = 101
  /\ phase = "idle"
  /\ pc = "list"
  /\ frame = [c \in Collections |-> NoFrame]
  /\ local_settings = SettingsA
  /\ remote_settings = SettingsA
  /\ acc = NoAcc
  /\ results = << >>
  /\ reqs = EmptyBag
  /\ ops = EmptyBag
  /\ outcome = [p \in {"tasks", "sessions", "settings"} |-> "none"]
  /\ started = << >>
  /\ atStart = [store |-> store, server |-> server, now |-> now, nextUuid |-> nextUuid]

\* One run over every pair of task collections; no session, remote settings absent.
InitTasks ==
  /\ \E lt \in LocalTables("tasks", Ids), rt \in RemoteColls("tasks", Ids) :
       /\ store = [tasks |-> lt, sessions |-> Empty, settings |-> SettingsPairs(SettingsA)]
       /\ server = [tasks |-> rt, sessions |-> Empty, settings |-> None, shape |-> Listed]
  /\ runsLeft = 1
  /\ faultsLeft = 0
  /\ ui = UiIdle(0)

\* One run over every pair of session collections; no task, remote settings present.
InitSessions ==
  /\ \E ls \in LocalTables("sessions", Ids), rs \in RemoteColls("sessions", Ids) :
       /\ store = [tasks |-> Empty, sessions |-> ls, settings |-> SettingsPairs(SettingsA)]
       /\ server = [tasks |-> Empty, sessions |-> rs, settings |-> Some(SettingsB), shape |-> Listed]
  /\ runsLeft = 1
  /\ faultsLeft = 0
  /\ ui = UiIdle(0)

\* Repeated runs with failing calls, over one id per collection.
InitFaults ==
  /\ \E lt \in LocalTables("tasks", {1}), rt \in RemoteColls("tasks", {1}),
        ls \in LocalTables("sessions", {1}), rs \in RemoteColls("sessions", {1}),
        lset \in {SettingsA, SettingsB}, rset \in {None, Some(SettingsB)} :
       /\ store = [tasks |-> lt, sessions |-> ls, settings |-> SettingsPairs(lset)]
       /\ server = [tasks |-> rt, sessions |-> rs, settings |-> rset, shape |-> Listed]
  /\ runsLeft = MaxRuns
  /\ faultsLeft = MaxFaults
  /\ ui = UiIdle(0)

\* One run over every pair of task collections in which one call may fail.
InitPartial ==
  /\ \E lt \in LocalTables("tasks", Ids), rt \in RemoteColls("tasks", Ids) :
       /\ store = [tasks |-> lt, sessions |-> Empty, settings |-> SettingsPairs(SettingsA)]
       /\ server = [tasks |-> rt, sessions |-> Empty, settings |-> None, shape |-> Listed]
  /\ runsLeft = 1
  /\ faultsLeft = 1
  /\ ui = UiIdle(0)

\* One run over one task id while the UI may call update_task, on that id, once.
InitRace ==
  /\ \E lt \in LocalTables("tasks", {1}), rt \in RemoteColls("tasks", {1}) :
       /\ store = [tasks |-> lt, sessions |-> Empty, settings |-> SettingsPairs(SettingsA)]
       /\ server = [tasks |-> rt, sessions |-> Empty, settings |-> None, shape |-> Listed]
  /\ runsLeft = 1
  /\ faultsLeft = 0
  /\ ui = UiIdle(MaxUiCalls)

\* A task row as import_data stores it: the timestamps of the imported file, here ahead of
\* the local clock, and the same task on the server edited later still.
ImportedTaskRow(id) == [LocalTaskRow(id, 1) EXCEPT !.updated_at = 12]
AheadRemoteTask(id) == [RemoteTask(id, 2) EXCEPT !.updated_at = 13]

\* One run over one imported task whose remote copy is newer or equally old.
InitImported ==
  /\ \E rt \in {AheadRemoteTask(1), [AheadRemoteTask(1) EXCEPT !.updated_at = 12]} :
       /\ store = [tasks |-> (1 :> ImportedTaskRow(1)), sessions |-> Empty,
                   settings |-> SettingsPairs(SettingsA)]
       /\ server = [tasks |-> (1 :> rt), sessions |-> Empty, settings |-> None, shape |-> Listed]
  /\ runsLeft = 1
  /\ faultsLeft = 0
  /\ ui = UiIdle(0)

\* A duration_minutes whose product by 60 is the first to exceed u32::MAX.
LongMinutes == 71582789
LongRemoteSession(id) == [RemoteSession(id, 1) EXCEPT !.duration_minutes = LongMinutes]

\* One run that meets a remote-only session of that duration, next to any task pair.
InitLongSession ==
  /\ \E lt \in LocalTables("tasks", {1}), rt \in RemoteColls("tasks", {1}) :
       /\ store = [tasks |-> lt, sessions |-> Empty, settings |-> SettingsPairs(SettingsA)]
       /\ server = [tasks |-> rt, sessions |-> (1 :> LongRemoteSession(1)), settings |-> None,
                    shape |-> Listed]
  /\ runsLeft = 1
  /\ faultsLeft = 0
  /\ ui = UiIdle(0)

\* One run, with the UI about, over task collections on both sides and one session on
\* each, the service answering every list request in the same one of the three shapes.
InitShaped ==
  /\ \E lt \in LocalTables("tasks", Ids), rt \in RemoteColls("tasks", Ids),
        ls \in {Empty, (1 :> LocalSessionRow(1, 3))}, rset \in {None, Some(SettingsB)},
        sh \in Shapes :
       /\ store = [tasks |-> lt, sessions |-> ls, settings |-> SettingsPairs(SettingsA)]
       /\ server = [tasks |-> rt, sessions |-> (1 :> RemoteSession(1, 1)), settings |-> rset,
                    shape |-> [c \in Collections |-> sh]]
  /\ runsLeft = 1
  /\ faultsLeft = 0
  /\ ui = UiIdle(MaxUiCalls)

Init ==
  (InitTasks \/ InitSessions \/ InitFaults \/ InitPartial \/ InitRace \/ InitImported
     \/ InitLongSession)
    /\ InitRest /\ NotifyIdle

(***************************************************************************)
(* The environment: a call fails only while the scenario has faults left.  *)
(***************************************************************************)
CallOutcomes == IF faultsLeft > 0 THEN BOOLEAN ELSE {TRUE}
Charge(ok) == IF ok THEN faultsLeft ELSE faultsLeft - 1

\* Every order in which the remote service may list the ids S.
Orders(S) ==
  { o \in [1..Cardinality(S) -> S] : \A a \in S : \E i \in 1..Cardinality(S) : o[i] = a }

Request(method, c, body) == [method |-> method, coll |-> c, body |-> body]
\* Faulty variant of Sent: the request is issued a second time.
SentAgain(rq) == reqs (+) SetToBag({rq}) (+) SetToBag({rq})

Sent(rq) == reqs (+) SetToBag({rq})
Executed(op) == ops (+) SetToBag({op})

(***************************************************************************)
(* sync_data: the three match arms and the returned record.                *)
(***************************************************************************)
ErrorString(p) ==
  CASE p = "tasks" -> "Task sync error"
    [] p = "sessions" -> "Session sync error"
    [] p = "settings" -> "Settings sync error"

\* Faulty variant of NextPhase: the settings phase is run before the session phase.
NextPhaseSettingsFirst(p) ==
  CASE p = "tasks" -> "settings"
    [] p = "settings" -> "sessions"
    [] p = "sessions" -> "ret"

\* What sync_data runs after phase p.
NextPhase(p) ==
  CASE p = "tasks" -> "sessions"
    [] p = "sessions" -> "settings"
    [] p = "settings" -> "ret"

\* Faulty variant of OnErr: an error is propagated with `?`, so the run ends at once.
OnErrAbort(p) == "ret"

\* Faulty variant of OnErr: the failed phase is run again from its start.
OnErrRetry(p) == p

\* Where sync_data goes when phase p returned Err: on to the next phase.
OnErr(p) == NextPhase(p)

Enter(q) ==
  /\ phase' = q
  /\ pc' = "list"
  /\ started' = IF q = "ret" THEN started ELSE Append(started, q)

\* Faulty variant of PhaseErr: the error string is put in front of the list.
PhaseErrPrepend(p) ==
  /\ acc' = [acc EXCEPT !.errors = << ErrorString(p) >> \o @]
  /\ outcome' = [outcome EXCEPT ![p] = "err"]
  /\ Enter(OnErr(p))

\* The Err arm: one string pushed, the phase's counts dropped.
PhaseErr(p) ==
  /\ acc' = [acc EXCEPT !.errors = Append(@, ErrorString(p))]
  /\ outcome' = [outcome EXCEPT ![p] = "err"]
  /\ Enter(OnErr(p))

\* Faulty variant of AddCounts: the conflicts of a phase replace those counted so far.
AddCountsLastWins(a, p, synced, conflicts) ==
  CASE p = "tasks" ->
         [a EXCEPT !.synced_tasks = synced, !.conflicts = conflicts]
    [] p = "sessions" ->
         [a EXCEPT !.synced_sessions = synced, !.conflicts = conflicts]
    [] p = "settings" -> a

\* The locals of sync_data, a, after the Ok arm of phase p: synced_tasks = synced /
\* synced_sessions = synced, total_conflicts += conflicts; Ok(_) of the settings phase.
AddCounts(a, p, synced, conflicts) ==
  CASE p = "tasks" ->
         [a EXCEPT !.synced_tasks = synced, !.conflicts = @ + conflicts]
    [] p = "sessions" ->
         [a EXCEPT !.synced_sessions = synced, !.conflicts = @ + conflicts]
    [] p = "settings" -> a

\* Faulty variant of AccOk: the counts a phase returned are not recorded.
AccOkDropped(p, synced, conflicts) == acc

\* The Ok arm, given the counts (synced, conflicts) the phase returned.
AccOk(p, synced, conflicts) == AddCounts(acc, p, synced, conflicts)

PhaseOk(p, synced, conflicts) ==
  /\ acc' = AccOk(p, synced, conflicts)
  /\ outcome' = [outcome EXCEPT ![p] = "ok"]
  /\ Enter(NextPhase(p))

\* Faulty variant of MakeSyncResult: success is reported whatever the errors.
MakeSyncResultAlwaysOk(a, t) ==
  [success |-> TRUE,
   synced_tasks |-> a.synced_tasks,
   synced_sessions |-> a.synced_sessions,
   conflicts |-> a.conflicts,
   errors |-> a.errors,
   last_sync |-> t]

MakeSyncResult(a, t) ==
  [success |-> a.errors = << >>,
   synced_tasks |-> a.synced_tasks,
   synced_sessions |-> a.synced_sessions,
   conflicts |-> a.conflicts,
   errors |-> a.errors,
   last_sync |-> t]

\* sync_with_server is invoked: sync_data starts with fresh locals.
StartSync ==
  /\ phase \in {"idle", "done"}
  /\ runsLeft > 0
  /\ runsLeft' = runsLeft - 1
  /\ acc' = NoAcc
  /\ frame' = [c \in Collections |-> NoFrame]
  /\ reqs' = EmptyBag
  /\ ops' = EmptyBag
  /\ outcome' = [p \in {"tasks", "sessions", "settings"} |-> "none"]
  /\ started' = << "tasks" >>
  /\ atStart' = [store |-> store, server |-> server, now |-> now, nextUuid |-> nextUuid]
  /\ phase' = "tasks"
  /\ pc' = "list"
  /\ UNCHANGED << store, dbLock, server, now, nextUuid, local_settings, remote_settings,
                  results, ui, faultsLeft >>
  /\ UNCHANGED nvars

\* Faulty variant of SyncDataReturn: with errors recorded the call returns Err, no result.
SyncDataReturnErr ==
  /\ phase = "ret"
  /\ results' = IF acc.errors = << >> THEN Append(results, MakeSyncResult(acc, now))
                                     ELSE results
  /\ phase' = "done"
  /\ UNCHANGED << store, dbLock, server, now, nextUuid, pc, frame, local_settings,
                  remote_settings, acc, reqs, ops, outcome, started, atStart,
                  runsLeft, ui, faultsLeft >>
  /\ UNCHANGED nvars

\* sync_data returns Ok(SyncResult).
SyncDataReturn ==
  /\ phase = "ret"
  /\ results' = Append(results, MakeSyncResult(acc, now))
  /\ phase' = "done"
  /\ UNCHANGED << store, dbLock, server, now, nextUuid, pc, frame, local_settings,
                  remote_settings, acc, reqs, ops, outcome, started, atStart,
                  runsLeft, ui, faultsLeft >>
  /\ UNCHANGED nvars

(***************************************************************************)
(* sync_tasks and sync_pomodoro_sessions: the same reconciler, once per    *)
(* collection c.                                                           *)
(***************************************************************************)
\* get_all_tasks / get_pomodoro_sessions(None, None, None): every row, converted.
Snapshot(c) == [id \in DOMAIN store[c] |-> FromRow(c, store[c][id])]

\* Faulty variant of Processed: the entry stays in the map of local entities.
ProcessedKept(remaining, id) == remaining

\* local_map.remove(&remote.id): the local entity has been dealt with.
Processed(remaining, id) == remaining \ {id}

\* Faulty variant of UploadMethod: a local-only entity is sent as an update.
UploadMethodPut == "PUT"

\* The method of the upload of a local-only entity: api_client.post.
UploadMethod == "POST"

\* let local = storage.get_all...().await?
ReadLocal(c) ==
  /\ phase = c /\ pc = "list"
  /\ dbLock = "free"
  /\ \E ok \in CallOutcomes :
       /\ faultsLeft' = Charge(ok)
       /\ IF ok
          THEN /\ frame' = [frame EXCEPT ![c] = [NoFrame EXCEPT !.local_snap = Snapshot(c)]]
               /\ pc' = "fetch"
               /\ UNCHANGED << phase, acc, outcome, started >>
          ELSE /\ PhaseErr(c)
               /\ UNCHANGED frame
  /\ UNCHANGED << store, dbLock, server, now, nextUuid, local_settings, remote_settings,
                  results, reqs, ops, atStart, runsLeft, ui >>
  /\ UNCHANGED nvars

\* The body of a successful GET /sync/<c> when the service lists its entities in order o:
\* None when the body has no key for the collection.
Response(c, o) ==
  LET lst == [i \in DOMAIN o |-> server[c][o[i]]]
  IN CASE server.shape[c] = "list" -> Some(lst)
       [] server.shape[c] = "nokey" -> None
       [] server.shape[c] = "repeat" ->
            Some(IF lst = << >> THEN lst ELSE Append(lst, lst[1]))

\* if let Some(array) = response.get(key) { from_value(array)? } else { Vec::new() }
RemoteEntities(response) == IF IsSome(response) THEN Unwrap(response) ELSE << >>

\* Faulty variant of FetchRemote: a failed GET is taken for an empty remote list.
FetchRemoteFailOpen(c) ==
  /\ phase = c /\ pc = "fetch"
  /\ reqs' = Sent(Request("GET", c, None))
  /\ \E ok \in CallOutcomes :
       /\ faultsLeft' = Charge(ok)
       /\ IF ok
          THEN /\ \E o \in Orders(DOMAIN server[c]) :
                    frame' = [frame EXCEPT ![c] =
                                [@ EXCEPT !.remote_list = RemoteEntities(Response(c, o)),
                                          !.idx = 1,
                                          !.remaining = DOMAIN frame[c].local_snap]]
               /\ pc' = IF frame'[c].remote_list = << >> THEN "upload" ELSE "loop"
               /\ UNCHANGED << phase, acc, outcome, started >>
          ELSE /\ frame' = [frame EXCEPT ![c] =
                               [@ EXCEPT !.remaining = DOMAIN frame[c].local_snap]]
               /\ pc' = "upload"
               /\ UNCHANGED << phase, acc, outcome, started >>
  /\ UNCHANGED << store, dbLock, server, now, nextUuid, local_settings, remote_settings,
                  results, ops, atStart, runsLeft, ui >>
  /\ UNCHANGED nvars

\* api_client.get("/sync/...").await? and the parse; then the lookup map is built.
FetchRemote(c) ==
  /\ phase = c /\ pc = "fetch"
  /\ reqs' = Sent(Request("GET", c, None))
  /\ \E ok \in CallOutcomes :
       /\ faultsLeft' = Charge(ok)
       /\ IF ok
          THEN /\ \E o \in Orders(DOMAIN server[c]) :
                    frame' = [frame EXCEPT ![c] =
                                [@ EXCEPT !.remote_list = RemoteEntities(Response(c, o)),
                                          !.idx = 1,
                                          !.remaining = DOMAIN frame[c].local_snap]]
               /\ pc' = IF frame'[c].remote_list = << >> THEN "upload" ELSE "loop"
               /\ UNCHANGED << phase, acc, outcome, started >>
          ELSE /\ PhaseErr(c)
               /\ UNCHANGED frame
  /\ UNCHANGED << store, dbLock, server, now, nextUuid, local_settings, remote_settings,
                  results, ops, atStart, runsLeft, ui >>
  /\ UNCHANGED nvars

\* The end of one iteration of `for remote in &remote_list`, with the frame f it leaves.
StepDone(c, f) ==
  /\ frame' = [frame EXCEPT ![c] = [f EXCEPT !.idx = @ + 1]]
  /\ pc' = IF f.idx = Len(f.remote_list) THEN "upload" ELSE "loop"
  /\ UNCHANGED << phase, acc, outcome, started >>

\* storage.update_task / update_pomodoro_session, up to and including the UPDATE:
\* the lock is taken and is still held when the function goes on to read the row back.
LocalUpdate(c, r, isConflict) ==
  /\ dbLock = "free"
  /\ frame' = [frame EXCEPT ![c].conflicts = IF isConflict THEN @ + 1 ELSE @]
  /\ \E ok \in CallOutcomes :
       /\ faultsLeft' = Charge(ok)
       /\ IF ok
          THEN /\ store' = [store EXCEPT ![c] = UpdateWhereId(@, c, r, now)]
               /\ now' = now + 1
               /\ ops' = Executed([op |-> "update", coll |-> c, id |-> r.id, src |-> r.id])
               /\ dbLock' = "held"
               /\ pc' = "readback"
               /\ UNCHANGED << phase, acc, outcome, started >>
          ELSE /\ PhaseErr(c)
               /\ UNCHANGED << store, now, ops, dbLock >>
  /\ UNCHANGED << server, nextUuid, reqs >>

\* The end of update_task / update_pomodoro_session: get_..._by_id(id).await, which
\* takes the lock itself, then Ok(row) or "not found after update".
ReadBack(c) ==
  LET f == frame[c]
      r == f.remote_list[f.idx]
      newer == r.updated_at > f.local_snap[r.id].updated_at
  IN /\ dbLock = "free"
     /\ dbLock' = "free"
     /\ IF r.id \in DOMAIN store[c]
        THEN StepDone(c, [f EXCEPT !.synced_count = IF newer THEN @ + 1 ELSE @,
                                   !.remaining = Processed(@, r.id)])
        ELSE /\ PhaseErr(c)
             /\ UNCHANGED frame
     /\ UNCHANGED << store, server, now, nextUuid, reqs, ops, faultsLeft >>

\* Faulty variant of PutRemote: the upload is sent but not counted.
PutRemoteUncounted(c, l) ==
  /\ reqs' = Sent(Request("PUT", c, Some(l)))
  /\ \E ok \in CallOutcomes :
       /\ faultsLeft' = Charge(ok)
       /\ IF ok
          THEN /\ server' = [server EXCEPT ![c] = RemoteStore(@, l)]
               /\ StepDone(c, [frame[c] EXCEPT !.remaining = @ \ {l.id}])
          ELSE /\ PhaseErr(c)
               /\ UNCHANGED << server, frame >>
  /\ UNCHANGED << store, dbLock, now, nextUuid, ops >>

\* api_client.put(".../{id}", to_value(local)).await?
PutRemote(c, l) ==
  /\ reqs' = Sent(Request("PUT", c, Some(l)))
  /\ \E ok \in CallOutcomes :
       /\ faultsLeft' = Charge(ok)
       /\ IF ok
          THEN /\ server' = [server EXCEPT ![c] = RemoteStore(@, l)]
               /\ StepDone(c, [frame[c] EXCEPT !.synced_count = @ + 1,
                                               !.remaining = Processed(@, l.id)])
          ELSE /\ PhaseErr(c)
               /\ UNCHANGED << server, frame >>
  /\ UNCHANGED << store, dbLock, now, nextUuid, ops >>

\* Faulty variant of LocalCreate: a remote-only entity is skipped instead of created.
LocalCreateSkipped(c, r) ==
  /\ StepDone(c, frame[c])
  /\ UNCHANGED << store, dbLock, server, now, nextUuid, reqs, ops, faultsLeft >>

\* create_pomodoro_session evaluates duration_minutes * 60 while it builds the INSERT.
CreateOverflows(c, r) == c = "sessions" /\ MulOverflows(r.duration_minutes, 60)

\* With overflow checks the multiplication panics: the call unwinds, dropping the lock,
\* nothing is inserted and the run ends there without a result.
CreatePanics(c, r) ==
  /\ CreateOverflows(c, r)
  /\ pc' = "panicked"
  /\ UNCHANGED << store, nextUuid, now, ops, frame, faultsLeft, phase, acc, outcome, started >>

\* storage.create_task / create_pomodoro_session seeded from the remote entity.
LocalCreate(c, r) ==
  /\ dbLock = "free"
  /\ \/ \E ok \in CallOutcomes :
          /\ faultsLeft' = Charge(ok)
          /\ IF ok
             THEN /\ store' = [store EXCEPT
                                 ![c] = (nextUuid :> CreatedRow(c, r, nextUuid, now)) @@ @]
                  /\ nextUuid' = nextUuid + 1
                  /\ now' = now + 1
                  /\ ops' = Executed([op |-> "create", coll |-> c, id |-> nextUuid,
                                      src |-> r.id])
                  /\ StepDone(c, [frame[c] EXCEPT !.synced_count = @ + 1])
             ELSE /\ PhaseErr(c)
                  /\ UNCHANGED << store, nextUuid, now, ops, frame >>
     \/ CreatePanics(c, r)
  /\ UNCHANGED << dbLock, server, reqs >>

\* Faulty variant of AlreadyEqual: the identical pair is counted as synced.
AlreadyEqualCounted(c, r) ==
  /\ StepDone(c, [frame[c] EXCEPT !.synced_count = @ + 1, !.remaining = @ \ {r.id}])
  /\ UNCHANGED << store, dbLock, server, now, nextUuid, reqs, ops, faultsLeft >>

\* Equal timestamps, equal content: only the map entry is removed.
AlreadyEqual(c, r) ==
  /\ StepDone(c, [frame[c] EXCEPT !.remaining = Processed(@, r.id)])
  /\ UNCHANGED << store, dbLock, server, now, nextUuid, reqs, ops, faultsLeft >>

\* Faulty variant of ContentDiffers: equal timestamps always count as a conflict.
ContentAlwaysDiffers(l, r) == TRUE

\* local_json != remote_json: the whole serialized entities are compared.
ContentDiffers(l, r) == l # r

\* One iteration of `for remote in &remote_list` (or its resumption in the read-back).
Reconcile(c) ==
  /\ phase = c /\ pc \in {"loop", "readback"}
  /\ IF pc = "readback"
     THEN ReadBack(c)
     ELSE LET f == frame[c]
              r == f.remote_list[f.idx]
          IN IF r.id \in f.remaining
             THEN LET l == f.local_snap[r.id]
                  IN IF r.updated_at > l.updated_at THEN LocalUpdate(c, r, FALSE)
                     ELSE IF l.updated_at > r.updated_at THEN PutRemote(c, l)
                     ELSE IF ContentDiffers(l, r) THEN LocalUpdate(c, r, TRUE)
                     ELSE AlreadyEqual(c, r)
             ELSE LocalCreate(c, r)
  /\ UNCHANGED << local_settings, remote_settings, results, atStart, runsLeft, ui >>
  /\ UNCHANGED nvars

\* Faulty variant of Upload: the upload of a local-only entity is not counted.
UploadUncounted(c) ==
  /\ phase = c /\ pc = "upload"
  /\ \E id \in frame[c].remaining :
       LET l == frame[c].local_snap[id]
       IN /\ reqs' = Sent(Request("POST", c, Some(l)))
          /\ \E ok \in CallOutcomes :
               /\ faultsLeft' = Charge(ok)
               /\ IF ok
                  THEN /\ server' = [server EXCEPT ![c] = RemoteStore(@, l)]
                       /\ frame' = [frame EXCEPT ![c] = [@ EXCEPT !.remaining = @ \ {id}]]
                       /\ UNCHANGED << phase, pc, acc, outcome, started >>
                  ELSE /\ PhaseErr(c)
                       /\ UNCHANGED << server, frame >>
  /\ UNCHANGED << store, dbLock, now, nextUuid, local_settings, remote_settings,
                  results, ops, atStart, runsLeft, ui >>
  /\ UNCHANGED nvars

\* One iteration of `for (_, local) in local_map`: api_client.post(..., to_value(local)).
Upload(c) ==
  /\ phase = c /\ pc = "upload"
  /\ \E id \in frame[c].remaining :
       LET l == frame[c].local_snap[id]
       IN /\ reqs' = Sent(Request(UploadMethod, c, Some(l)))
          /\ \E ok \in CallOutcomes :
               /\ faultsLeft' = Charge(ok)
               /\ IF ok
                  THEN /\ server' = [server EXCEPT ![c] = RemoteStore(@, l)]
                       /\ frame' = [frame EXCEPT ![c] =
                                      [@ EXCEPT !.synced_count = @ + 1,
                                                !.remaining = @ \ {id}]]
                       /\ UNCHANGED << phase, pc, acc, outcome, started >>
                  ELSE /\ PhaseErr(c)
                       /\ UNCHANGED << server, frame >>
  /\ UNCHANGED << store, dbLock, now, nextUuid, local_settings, remote_settings,
                  results, ops, atStart, runsLeft, ui >>
  /\ UNCHANGED nvars

\* Ok((synced_count, conflicts)), and the Ok arm of sync_data.
ReturnOk(c) ==
  /\ phase = c /\ pc = "upload"
  /\ frame[c].remaining = {}
  /\ PhaseOk(c, frame[c].synced_count, frame[c].conflicts)
  /\ UNCHANGED << store, dbLock, server, now, nextUuid, frame, local_settings,
                  remote_settings, results, reqs, ops, atStart, runsLeft, ui, faultsLeft >>
  /\ UNCHANGED nvars

SyncTasksReadLocal == ReadLocal("tasks")
SyncTasksFetchRemote == FetchRemote("tasks")
SyncTasksReconcile == Reconcile("tasks")
SyncTasksUpload == Upload("tasks")
SyncTasksReturn == ReturnOk("tasks")

SyncSessionsReadLocal == ReadLocal("sessions")
SyncSessionsFetchRemote == FetchRemote("sessions")
SyncSessionsReconcile == Reconcile("sessions")
SyncSessionsUpload == Upload("sessions")
SyncSessionsReturn == ReturnOk("sessions")

(***************************************************************************)
(* sync_settings.                                                          *)
(***************************************************************************)
\* let local_settings = storage.get_settings().await?
SyncSettingsReadLocal ==
  /\ phase = "settings" /\ pc = "list"
  /\ dbLock = "free"
  /\ \E ok \in CallOutcomes :
       /\ faultsLeft' = Charge(ok)
       /\ IF ok
          THEN /\ local_settings' = GetSettings(store.settings)
               /\ pc' = "fetch"
               /\ UNCHANGED << phase, acc, outcome, started >>
          ELSE /\ PhaseErr("settings")
               /\ UNCHANGED local_settings
  /\ UNCHANGED << store, dbLock, server, now, nextUuid, frame, remote_settings,
                  results, reqs, ops, atStart, runsLeft, ui >>
  /\ UNCHANGED nvars

\* api_client.get("/sync/settings").await?, then the branch on the "settings" key.
SyncSettingsFetchRemote ==
  /\ phase = "settings" /\ pc = "fetch"
  /\ reqs' = Sent(Request("GET", "settings", None))
  /\ \E ok \in CallOutcomes :
       /\ faultsLeft' = Charge(ok)
       /\ IF ok
          THEN /\ IF IsSome(server.settings)
                  THEN /\ remote_settings' = Unwrap(server.settings)
                       /\ pc' = "apply"
                  ELSE /\ pc' = "post"
                       /\ UNCHANGED remote_settings
               /\ UNCHANGED << phase, acc, outcome, started >>
          ELSE /\ PhaseErr("settings")
               /\ UNCHANGED remote_settings
  /\ UNCHANGED << store, dbLock, server, now, nextUuid, frame, local_settings,
                  results, ops, atStart, runsLeft, ui >>
  /\ UNCHANGED nvars

\* Faulty variant of SyncSettingsUpload: the default settings are uploaded.
SyncSettingsUploadDefaults ==
  /\ phase = "settings" /\ pc = "post"
  /\ reqs' = Sent(Request("POST", "settings", Some(SettingsDefault)))
  /\ \E ok \in CallOutcomes :
       /\ faultsLeft' = Charge(ok)
       /\ IF ok
          THEN /\ server' = [server EXCEPT !.settings = Some(SettingsDefault)]
               /\ PhaseOk("settings", 0, 0)
          ELSE /\ PhaseErr("settings")
               /\ UNCHANGED server
  /\ UNCHANGED << store, dbLock, now, nextUuid, frame, local_settings, remote_settings,
                  results, ops, atStart, runsLeft, ui >>
  /\ UNCHANGED nvars

\* No remote settings: api_client.post("/sync/settings", to_value(&local_settings)).
SyncSettingsUpload ==
  /\ phase = "settings" /\ pc = "post"
  /\ reqs' = Sent(Request("POST", "settings", Some(local_settings)))
  /\ \E ok \in CallOutcomes :
       /\ faultsLeft' = Charge(ok)
       /\ IF ok
          THEN /\ server' = [server EXCEPT !.settings = Some(local_settings)]
               /\ PhaseOk("settings", 0, 0)
          ELSE /\ PhaseErr("settings")
               /\ UNCHANGED server
  /\ UNCHANGED << store, dbLock, now, nextUuid, frame, local_settings, remote_settings,
                  results, ops, atStart, runsLeft, ui >>
  /\ UNCHANGED nvars

\* Remote settings present: storage.update_settings(remote_settings), one statement
\* per key with no transaction: a failing statement leaves the earlier ones applied.
SyncSettingsApply ==
  /\ phase = "settings" /\ pc = "apply"
  /\ dbLock = "free"
  /\ ops' = Executed([op |-> "update", coll |-> "settings", id |-> 0, src |-> 0])
  /\ \E ok \in CallOutcomes :
       /\ faultsLeft' = Charge(ok)
       /\ IF ok
          THEN /\ store' = [store EXCEPT !.settings =
                              InsertOrReplaceFirst(@, remote_settings, Len(SettingsKeys))]
               /\ PhaseOk("settings", 0, 0)
          ELSE /\ \E j \in 0..(Len(SettingsKeys) - 1) :
                    store' = [store EXCEPT !.settings =
                                InsertOrReplaceFirst(@, remote_settings, j)]
               /\ PhaseErr("settings")
  /\ UNCHANGED << dbLock, server, now, nextUuid, frame, local_settings, remote_settings,
                  results, reqs, atStart, runsLeft, ui >>
  /\ UNCHANGED nvars

(***************************************************************************)
(* The UI command update_task: StorageManager::update_task called from the *)
(* UI, on the same StorageManager as the sync run.                         *)
(***************************************************************************)
\* UPDATE tasks SET ... WHERE id = ? with the request of a caller: no row, no change.
UpdateTaskWhereId(table, id, request, t) ==
  IF id \in DOMAIN table
  THEN [table EXCEPT ![id] = UpdateTaskRow(@, request, t)]
  ELSE table

\* Faulty variant of UiUpdateTask: the UPDATE is executed without waiting for the lock.
UiUpdateTaskUnlocked ==
  /\ IF ui.pc = "readback"
     THEN /\ dbLock = "free"
          /\ ui' = [ui EXCEPT !.pc = "idle"]
          /\ UNCHANGED << store, now, dbLock >>
     ELSE /\ ui.left > 0
          /\ \E id \in Ids :
               /\ store' = [store EXCEPT !.tasks = UpdateTaskWhereId(@, id, UiUpdates, now)]
               /\ ui' = [pc |-> "readback", task_id |-> id, left |-> ui.left - 1]
          /\ now' = now + 1
          /\ dbLock' = "held"
  /\ UNCHANGED << server, nextUuid, phase, pc, frame, local_settings, remote_settings,
                  acc, results, reqs, ops, outcome, started, atStart, runsLeft, faultsLeft >>
  /\ UNCHANGED nvars

\* The command takes the lock and executes its UPDATE; it then goes on, with the lock
\* still held, to get_task_by_id, which takes the lock itself before it returns the row.
UiUpdateTask ==
  /\ dbLock = "free"
  /\ IF ui.pc = "readback"
     THEN /\ ui' = [ui EXCEPT !.pc = "idle"]
          /\ UNCHANGED << store, now, dbLock >>
     ELSE /\ ui.left > 0
          /\ \E id \in Ids :
               /\ store' = [store EXCEPT !.tasks = UpdateTaskWhereId(@, id, UiUpdates, now)]
               /\ ui' = [pc |-> "readback", task_id |-> id, left |-> ui.left - 1]
          /\ now' = now + 1
          /\ dbLock' = "held"
  /\ UNCHANGED << server, nextUuid, phase, pc, frame, local_settings, remote_settings,
                  acc, results, reqs, ops, outcome, started, atStart, runsLeft, faultsLeft >>
  /\ UNCHANGED nvars

(***************************************************************************)
(* The specification.                                                      *)
(***************************************************************************)
\* The steps of a sync run that has started.
SyncStep ==
  \/ SyncTasksReadLocal \/ SyncTasksFetchRemote \/ SyncTasksReconcile
  \/ SyncTasksUpload \/ SyncTasksReturn
  \/ SyncSessionsReadLocal \/ SyncSessionsFetchRemote \/ SyncSessionsReconcile
  \/ SyncSessionsUpload \/ SyncSessionsReturn
  \/ SyncSettingsReadLocal \/ SyncSettingsFetchRemote
  \/ SyncSettingsUpload \/ SyncSettingsApply
  \/ SyncDataReturn

Next == StartSync \/ SyncStep \/ UiUpdateTask

Spec == Init /\ [][Next]_vars

\* The same program against a service whose list responses may lack the collection's key
\* or list an entity twice.
InitResponses == InitShaped /\ InitRest /\ NotifyIdle

SpecResponses == InitResponses /\ [][Next]_vars

(***************************************************************************)
(* The NotificationManager: scheduled notifications, their delivery tasks  *)
(* and the calls that cancel them.                                         *)
(***************************************************************************)
\* The sync engine at rest, with nothing stored on either side.
SyncIdle ==
  /\ store = [tasks |-> Empty, sessions |-> Empty, settings |-> SettingsPairs(SettingsA)]
  /\ server = [tasks |-> Empty, sessions |-> Empty, settings |-> None, shape |-> Listed]
  /\ InitRest

\* A ScheduledNotification: its id and what it is about.
ScheduledNotification(id, task_id, session_id) ==
  [id |-> id, task_id |-> task_id, session_id |-> session_id]

\* What the schedule_* functions put in task_id and session_id.
ScheduleKinds ==
  {<<None, None>>} \cup {<<Some(t), None>> : t \in Ids} \cup {<<None, Some(x)>> : x \in Ids}

\* HashMap::remove and HashMap::retain on the map of scheduled notifications.
MapRemove(map, ids) == [i \in DOMAIN map \ ids |-> map[i]]

\* The first half of a schedule_* call: mint the id and insert the notification.
ScheduleStore ==
  /\ nextNotificationId <= MaxNotifications
  /\ \E k \in ScheduleKinds :
       LET n == ScheduledNotification(nextNotificationId, k[1], k[2])
       IN /\ scheduled_notifications' = (n.id :> n) @@ scheduled_notifications
          /\ scheduling' = scheduling \cup {n.id}
  /\ nextNotificationId' = nextNotificationId + 1
  /\ UNCHANGED << app_handle, delivery, shown, cancelled >>
  /\ UNCHANGED svars

\* The second half: tokio::spawn the delivery task, which starts by sleeping.
ScheduleSpawn ==
  \E id \in scheduling :
    /\ scheduling' = scheduling \ {id}
    /\ delivery' = [delivery EXCEPT ![id] = "sleeping"]
    /\ UNCHANGED << scheduled_notifications, app_handle, shown, cancelled, nextNotificationId >>
    /\ UNCHANGED svars

\* A delivery task that shows the notification whether or not it is still scheduled.
WakeUnchecked(id) ==
  /\ delivery[id] = "sleeping"
  /\ scheduled_notifications' = MapRemove(scheduled_notifications, {id})
  /\ delivery' = [delivery EXCEPT ![id] = IF app_handle THEN "deliver" ELSE "done"]
  /\ UNCHANGED << app_handle, shown, scheduling, cancelled, nextNotificationId >>
  /\ UNCHANGED svars

\* A delivery task that looks its notification up and leaves it in the map.
WakeKeep(id) ==
  /\ delivery[id] = "sleeping"
  /\ delivery' = [delivery EXCEPT ![id] =
                    IF id \in DOMAIN scheduled_notifications /\ app_handle
                    THEN "deliver" ELSE "done"]
  /\ UNCHANGED << scheduled_notifications, app_handle, shown, scheduling, cancelled,
                  nextNotificationId >>
  /\ UNCHANGED svars

\* The delivery task wakes: it removes its own id from the map under the lock and
\* goes on to deliver only if the entry was still there and there is an app handle.
Wake(id) ==
  /\ delivery[id] = "sleeping"
  /\ scheduled_notifications' = MapRemove(scheduled_notifications, {id})
  /\ delivery' = [delivery EXCEPT ![id] =
                    IF id \in DOMAIN scheduled_notifications /\ app_handle
                    THEN "deliver" ELSE "done"]
  /\ UNCHANGED << app_handle, shown, scheduling, cancelled, nextNotificationId >>
  /\ UNCHANGED svars

\* The delivery task shows the notification it took out of the map.
Deliver(id) ==
  /\ delivery[id] = "deliver"
  /\ shown' = [shown EXCEPT ![id] = @ + 1]
  /\ delivery' = [delivery EXCEPT ![id] = "done"]
  /\ UNCHANGED << scheduled_notifications, app_handle, scheduling, cancelled,
                  nextNotificationId >>
  /\ UNCHANGED svars

DeliveryTask == \E id \in NotificationIds : Wake(id) \/ Deliver(id)

\* HashMap::retain: the entries the predicate keeps.
Retain(map, kept) == [i \in kept |-> map[i]]

\* What a cancelling call leaves alone; the ids it took out of the map are remembered.
CancelFrame ==
  /\ cancelled' = cancelled \cup (DOMAIN scheduled_notifications \ DOMAIN scheduled_notifications')
  /\ UNCHANGED << app_handle, delivery, shown, scheduling, nextNotificationId >>
  /\ UNCHANGED svars

cancel_notification ==
  \E notification_id \in NotificationIds :
    /\ scheduled_notifications' = MapRemove(scheduled_notifications, {notification_id})
    /\ CancelFrame

cancel_all_notifications_for_task ==
  \E task_id \in Ids :
    /\ scheduled_notifications' =
         Retain(scheduled_notifications,
                {i \in DOMAIN scheduled_notifications :
                   scheduled_notifications[i].task_id # Some(task_id)})
    /\ CancelFrame

cancel_all_notifications_for_session ==
  \E session_id \in Ids :
    /\ scheduled_notifications' =
         Retain(scheduled_notifications,
                {i \in DOMAIN scheduled_notifications :
                   scheduled_notifications[i].session_id # Some(session_id)})
    /\ CancelFrame

clear_all_scheduled_notifications ==
  /\ scheduled_notifications' = Empty
  /\ CancelFrame

NotifyNext ==
  \/ ScheduleStore
  \/ ScheduleSpawn
  \/ DeliveryTask
  \/ cancel_notification
  \/ cancel_all_notifications_for_task
  \/ cancel_all_notifications_for_session
  \/ clear_all_scheduled_notifications

\* The manager with or without an app handle, and the sync engine at rest.
InitNotify ==
  /\ SyncIdle
  /\ runsLeft = 0
  /\ ui = UiIdle(0)
  /\ faultsLeft = 0
  /\ scheduled_notifications = Empty
  /\ app_handle \in BOOLEAN
  /\ delivery = [i \in NotificationIds |-> "none"]
  /\ shown = [i \in NotificationIds |-> 0]
  /\ scheduling = {}
  /\ cancelled = {}
  /\ nextNotificationId = 1

SpecNotify == InitNotify /\ [][NotifyNext]_vars

(***************************************************************************)
(* Vocabulary of the properties.                                           *)
(***************************************************************************)
Last(sq) == sq[Len(sq)]
Returned == phase = "done" /\ results # << >>

\* The two snapshots a phase works from, once it has fetched them.
Fetched(c) == (phase = c /\ pc \in {"loop", "readback", "upload"}) \/ outcome[c] = "ok"
LocalSnap(c) == frame[c].local_snap
RemoteList(c) == frame[c].remote_list
RemoteIds(c) == { RemoteList(c)[i].id : i \in DOMAIN RemoteList(c) }
RemoteOf(c, id) == RemoteList(c)[CHOOSE i \in DOMAIN RemoteList(c) : RemoteList(c)[i].id = id]
OnBothSides(c) == DOMAIN LocalSnap(c) \cap RemoteIds(c)

RemoteNewer(c, id) == RemoteOf(c, id).updated_at > LocalSnap(c)[id].updated_at
LocalNewer(c, id) == LocalSnap(c)[id].updated_at > RemoteOf(c, id).updated_at
Tie(c, id) == LocalSnap(c)[id].updated_at = RemoteOf(c, id).updated_at
TrueConflict(c, id) == Tie(c, id) /\ LocalSnap(c)[id] # RemoteOf(c, id)

\* The remote writes and the store statements of the current run that concern id.
WritesAbout(c, id) ==
  { q \in BagToSet(reqs) : q.coll = c /\ q.method # "GET" /\ Unwrap(q.body).id = id }
OpsAbout(c, id) == { o \in BagToSet(ops) : o.coll = c /\ (o.id = id \/ o.src = id) }
UpdateDone(c, id) ==
  BagIn([op |-> "update", coll |-> c, id |-> id, src |-> id], ops)

\* The entity a local row reads as, without its timestamp.
Payload(e) == [e EXCEPT !.updated_at = 0]

\* The iteration of the loop that is about to run handles remote entity Cur(c).
AtItem(c) == phase = c /\ pc = "loop"
Cur(c) == RemoteList(c)[frame[c].idx]
Failed(c) == outcome[c] = "err"

(***************************************************************************)
(* C1: every SyncResult returned by sync_data has success = TRUE exactly   *)
(* when its errors list is empty, the result of the run just finished has  *)
(* errors exactly when a phase failed, and a result built from a positive  *)
(* conflicts count and no error string has success = TRUE.                 *)
(***************************************************************************)
C1_SuccessIffNoErrors ==
  /\ \A i \in DOMAIN results : results[i].success <=> (results[i].errors = << >>)
  /\ Returned => (Last(results).success <=> \A p \in DOMAIN outcome : outcome[p] = "ok")
  /\ \A n \in 1..NumIds : MakeSyncResult([NoAcc EXCEPT !.conflicts = n], now).success

\* Two runs have returned: the first with errors, the second clean with entities synced.
C1_Witness ==
  /\ Len(results) = 2
  /\ ~results[1].success /\ Len(results[1].errors) = 2
  /\ results[2].success /\ results[2].synced_tasks > 0

(***************************************************************************)
(* C2: a run attempts the three phases in order whatever fails: as soon as *)
(* the task phase or the session phase is over, by Ok or by Err, the next  *)
(* phase has been started, and a run that returned started all three.      *)
(***************************************************************************)
C2_AllPhasesAttempted ==
  /\ \A k \in 1..2 : outcome[Phases[k]] # "none" => Len(started) > k
  /\ \A k \in DOMAIN started : started[k] = Phases[k]
  /\ phase \in {"ret", "done"} /\ results # << >> =>
       started = Phases /\ \A p \in DOMAIN outcome : outcome[p] # "none"

\* The task phase and the session phase both failed and the settings phase still ran.
C2_Witness ==
  /\ Returned
  /\ outcome["tasks"] = "err" /\ outcome["sessions"] = "err" /\ outcome["settings"] = "ok"
  /\ started = Phases

(***************************************************************************)
(* C3: a sync run never blocks: a run that has started and has not yet     *)
(* returned can always take its next step (each call returning, by Ok or   *)
(* by Err), so that it reaches the return of sync_data.                    *)
(***************************************************************************)
C3_RunNeverBlocks == phase \in {"idle", "done"} \/ ENABLED SyncStep

(***************************************************************************)
(* C4: idempotence: when a successful run is followed by another           *)
(* successful run, the second reports synced_tasks = 0, synced_sessions =  *)
(* 0 and conflicts = 0 and leaves the local tables and the remote          *)
(* collections as it found them.                                           *)
(***************************************************************************)
C4_SecondRunIsNoOp ==
  (Returned /\ Len(results) >= 2 /\ results[Len(results) - 1].success /\ Last(results).success)
    => /\ Last(results).synced_tasks = 0
       /\ Last(results).synced_sessions = 0
       /\ Last(results).conflicts = 0
       /\ \A c \in Collections : store[c] = atStart.store[c] /\ server[c] = atStart.server[c]

(***************************************************************************)
(* C5: convergence: after a run in which no phase failed, the local and    *)
(* the remote collection hold the same ids and, for every id, the local    *)
(* copy equals the remote copy.                                            *)
(***************************************************************************)
C5_Converged ==
  (Returned /\ Last(results).success)
    => \A c \in Collections :
         /\ DOMAIN store[c] = DOMAIN server[c]
         /\ \A id \in DOMAIN store[c] : FromRow(c, store[c][id]) = server[c][id]

(***************************************************************************)
(* C6: monotonic convergence: when exactly one entity is remote-newer and  *)
(* every other entity is identical on both sides, then once the run has    *)
(* issued its local update the local copy equals the remote copy in every  *)
(* field, and no other local or remote entity has changed.                 *)
(***************************************************************************)
C6_LocalEqualsRemoteAfterUpdate ==
  \A c \in Collections :
    Fetched(c) =>
      \A id \in OnBothSides(c) :
        ( /\ RemoteNewer(c, id)
          /\ \A other \in (DOMAIN LocalSnap(c) \cup RemoteIds(c)) \ {id} :
               other \in OnBothSides(c) /\ LocalSnap(c)[other] = RemoteOf(c, other)
          /\ UpdateDone(c, id) )
        => /\ FromRow(c, store[c][id]) = RemoteOf(c, id)
           /\ \A other \in DOMAIN store[c] \ {id} : store[c][other] = atStart.store[c][other]
           /\ server[c] = atStart.server[c]

\* A step of the running sync_data (as opposed to a step of anything else).
RunSteps == << phase, pc, frame, outcome >>' # << phase, pc, frame, outcome >>

PutOf(c, id) == Request("PUT", c, Some(LocalSnap(c)[id]))
PostOf(c, id) == Request("POST", c, Some(LocalSnap(c)[id]))
CreatesFor(c, id) == { o \in BagToSet(ops) : o.coll = c /\ o.op = "create" /\ o.src = id }

(***************************************************************************)
(* C7: local wins: for an id on both sides whose local updated_at is the   *)
(* greater, the iteration sends one PUT carrying the local entity,         *)
(* executes no store statement and, unless the PUT fails, adds exactly 1   *)
(* to the synced count; a phase that returned Ok sent exactly that one     *)
(* remote write for the id and executed no store statement for it.         *)
(***************************************************************************)
C7_LocalWinsState ==
  \A c \in Collections :
    Fetched(c) =>
      \A id \in OnBothSides(c) :
        LocalNewer(c, id) =>
          /\ OpsAbout(c, id) = {}
          /\ WritesAbout(c, id) \subseteq {PutOf(c, id)}
          /\ CopiesIn(PutOf(c, id), reqs) <= 1
          /\ outcome[c] = "ok" => CopiesIn(PutOf(c, id), reqs) = 1

C7_LocalWinsStep ==
  \A c \in Collections :
    (AtItem(c) /\ RunSteps /\ Cur(c).id \in frame[c].remaining
       /\ LocalSnap(c)[Cur(c).id].updated_at > Cur(c).updated_at)
    => /\ reqs' = reqs (+) SetToBag({PutOf(c, Cur(c).id)})
       /\ store' = store /\ ops' = ops
       /\ IF outcome'[c] = "err"
          THEN frame' = frame
          ELSE frame'[c].synced_count = frame[c].synced_count + 1

C7_LocalWins == [] C7_LocalWinsState /\ [][C7_LocalWinsStep]_vars

\* A task phase returned Ok after uploading a local-newer task with one PUT.
C7_Witness ==
  /\ outcome["tasks"] = "ok"
  /\ \E id \in OnBothSides("tasks") :
       LocalNewer("tasks", id) /\ CopiesIn(PutOf("tasks", id), reqs) = 1
  /\ frame["tasks"].synced_count >= 1

(***************************************************************************)
(* C8: tie-break: for an id on both sides with equal updated_at and        *)
(* different content, once the run has issued its local update no remote   *)
(* write was sent for the id, the conflict was counted, and the local      *)
(* entity's payload (every field but updated_at) equals the remote one.    *)
(***************************************************************************)
C8_TieResolvesToRemote ==
  \A c \in Collections :
    Fetched(c) =>
      \A id \in OnBothSides(c) :
        (TrueConflict(c, id) /\ UpdateDone(c, id))
        => /\ WritesAbout(c, id) = {}
           /\ frame[c].conflicts >= 1
           /\ Payload(FromRow(c, store[c][id])) = Payload(RemoteOf(c, id))

(***************************************************************************)
(* C9: the conflict counter of a phase counts exactly the remote entities  *)
(* handled so far whose id is also local, whose updated_at equals the      *)
(* local one and whose content differs; a phase that returned Ok reports   *)
(* the number of such ids in its two snapshots.                            *)
(***************************************************************************)
HandledItems(c) ==
  { i \in DOMAIN RemoteList(c) :
      \/ i < frame[c].idx
      \/ i = frame[c].idx /\ ((phase = c /\ pc = "readback") \/ Failed(c)) }

ConflictItems(c) ==
  { i \in DOMAIN RemoteList(c) :
      LET r == RemoteList(c)[i]
      IN /\ r.id \in DOMAIN LocalSnap(c)
         /\ r.updated_at = LocalSnap(c)[r.id].updated_at
         /\ r # LocalSnap(c)[r.id] }

C9_ConflictsCounted ==
  \A c \in Collections :
    /\ frame[c].conflicts = Cardinality(HandledItems(c) \cap ConflictItems(c))
    /\ outcome[c] = "ok" =>
         frame[c].conflicts = Cardinality({ id \in OnBothSides(c) : TrueConflict(c, id) })

\* One conflict counted next to an equal-timestamp identical pair that was not.
C9_Witness ==
  /\ phase = "tasks" /\ pc = "readback"
  /\ frame["tasks"].conflicts = 1
  /\ \E id \in OnBothSides("tasks") :
       Tie("tasks", id) /\ ~TrueConflict("tasks", id) /\ id \notin frame["tasks"].remaining

(***************************************************************************)
(* C10: new-entity discovery: in a phase that returned Ok, each id present *)
(* only locally was sent with exactly one POST carrying the local entity   *)
(* and touched by no store statement, and each id present only remotely    *)
(* caused exactly one local create and no remote write; each such upload   *)
(* or create that succeeds adds exactly 1 to the synced count.             *)
(***************************************************************************)
C10_DiscoveryState ==
  \A c \in Collections :
    outcome[c] = "ok" =>
      /\ \A id \in DOMAIN LocalSnap(c) \ RemoteIds(c) :
           /\ WritesAbout(c, id) = {PostOf(c, id)}
           /\ CopiesIn(PostOf(c, id), reqs) = 1
           /\ OpsAbout(c, id) = {}
      /\ \A id \in RemoteIds(c) \ DOMAIN LocalSnap(c) :
           /\ Cardinality(CreatesFor(c, id)) = 1
           /\ \A o \in CreatesFor(c, id) : CopiesIn(o, ops) = 1
           /\ OpsAbout(c, id) = CreatesFor(c, id)
           /\ WritesAbout(c, id) = {}

C10_DiscoveryStep ==
  \A c \in Collections :
    /\ (phase = c /\ pc = "upload" /\ frame'[c] # frame[c])
         => /\ frame'[c].synced_count = frame[c].synced_count + 1
            /\ store' = store
    /\ (AtItem(c) /\ RunSteps /\ Cur(c).id \notin frame[c].remaining)
         => IF outcome'[c] = "err" \/ pc' = "panicked"
            THEN frame' = frame /\ store' = store
            ELSE /\ frame'[c].synced_count = frame[c].synced_count + 1
                 /\ Cardinality(DOMAIN store'[c]) = Cardinality(DOMAIN store[c]) + 1
                 /\ server' = server

C10_Discovery == [] C10_DiscoveryState /\ [][C10_DiscoveryStep]_vars

\* A task phase returned Ok with one task found only locally and one only remotely.
C10_Witness ==
  /\ outcome["tasks"] = "ok"
  /\ DOMAIN LocalSnap("tasks") \ RemoteIds("tasks") # {}
  /\ RemoteIds("tasks") \ DOMAIN LocalSnap("tasks") # {}
  /\ frame["tasks"].synced_count = 2

(***************************************************************************)
(* C11: the engine never mints identities: at every moment of a run the    *)
(* ids held locally or remotely are ids one of the two sides held when the *)
(* run started, and a local create stores the entity under the remote      *)
(* entity's own id.                                                        *)
(***************************************************************************)
C11_NoMintedIds ==
  \A c \in Collections :
    /\ (DOMAIN store[c] \cup DOMAIN server[c])
         \subseteq (DOMAIN atStart.store[c] \cup DOMAIN atStart.server[c])
    /\ \A o \in BagToSet(ops) : (o.coll = c /\ o.op = "create") => o.id = o.src

(***************************************************************************)
(* C12: identical copies are a no-op: the iteration that handles an id     *)
(* whose local and remote copies have the same updated_at and the same     *)
(* content changes neither side, sends no request, executes no store       *)
(* statement and leaves the synced and conflict counts as they were; the   *)
(* run never sends a remote write nor executes a statement for that id.    *)
(***************************************************************************)
Identical(c, id) == LocalSnap(c)[id] = RemoteOf(c, id)

C12_IdenticalState ==
  \A c \in Collections :
    Fetched(c) =>
      \A id \in OnBothSides(c) :
        Identical(c, id) => WritesAbout(c, id) = {} /\ OpsAbout(c, id) = {}

C12_IdenticalStep ==
  \A c \in Collections :
    (AtItem(c) /\ RunSteps /\ Cur(c).id \in frame[c].remaining
       /\ LocalSnap(c)[Cur(c).id] = Cur(c))
    => /\ store' = store /\ server' = server
       /\ reqs' = reqs /\ ops' = ops
       /\ outcome' = outcome
       /\ frame'[c].synced_count = frame[c].synced_count
       /\ frame'[c].conflicts = frame[c].conflicts

C12_IdenticalIsNoOp == [] C12_IdenticalState /\ [][C12_IdenticalStep]_vars

\* A session phase returned Ok having met one identical pair and synced nothing.
C12_Witness ==
  /\ outcome["sessions"] = "ok"
  /\ \E id \in OnBothSides("sessions") : Identical("sessions", id)
  /\ frame["sessions"].synced_count = 0 /\ frame["sessions"].conflicts = 0
  /\ store = atStart.store /\ server.sessions = atStart.server.sessions

(***************************************************************************)
(* C13: partial-failure isolation: when only the session phase failed, the *)
(* task phase and the settings phase ran to completion, the result's       *)
(* synced_tasks is the count the task phase returned, synced_sessions is   *)
(* 0, errors holds exactly the session error and success is FALSE.         *)
(***************************************************************************)
OnlySessionsFailed ==
  outcome = [tasks |-> "ok", sessions |-> "err", settings |-> "ok"]

C13_SessionFailureIsolated ==
  (Returned /\ OnlySessionsFailed)
    => /\ started = Phases
       /\ Last(results).synced_tasks = frame["tasks"].synced_count
       /\ Last(results).synced_sessions = 0
       /\ Last(results).errors = << ErrorString("sessions") >>
       /\ ~Last(results).success

\* The session fetch failed; one task was synced and the settings phase finished.
C13_Witness ==
  /\ Returned /\ OnlySessionsFailed
  /\ Last(results).synced_tasks = 1
  /\ \E q \in BagToSet(reqs) : q.coll = "sessions" /\ q.method = "GET"
  /\ \E q \in BagToSet(reqs) : q.coll = "settings"

(***************************************************************************)
(* C14: the counts of a returned result reflect what was applied: for each *)
(* entity collection, the synced count in the result equals the number of  *)
(* entities the run actually created or updated on either side, also when  *)
(* the phase failed part-way.                                              *)
(***************************************************************************)
\* The entities of collection c the current run has written, locally or remotely.
AppliedLocally(c) == { o \in BagToSet(ops) : o.coll = c }
AppliedRemotely(c) ==
  { id \in DOMAIN server[c] :
      id \notin DOMAIN atStart.server[c] \/ server[c][id] # atStart.server[c][id] }
Applied(c) == Cardinality(AppliedLocally(c)) + Cardinality(AppliedRemotely(c))

SyncedIn(res, c) == IF c = "tasks" THEN res.synced_tasks ELSE res.synced_sessions

C14_CountsReflectApplied ==
  Returned => \A c \in Collections : SyncedIn(Last(results), c) = Applied(c)

(***************************************************************************)
(* C15: no rollback: the step in which a reconciler fails leaves the       *)
(* collection as it is on both sides and leaves the phase; from then on    *)
(* the run processes no further entity of that collection (no request, no  *)
(* statement, no change on either side), and every row the phase created   *)
(* is still in the table.                                                  *)
(***************************************************************************)
ReqsOf(c) == [q \in { x \in BagToSet(reqs) : x.coll = c } |-> reqs[q]]

C15_AppliedStays ==
  \A c \in Collections :
    /\ \A o \in AppliedLocally(c) : o.op = "create" => o.id \in DOMAIN store[c]
    /\ DOMAIN atStart.store[c] \subseteq DOMAIN store[c]
    /\ DOMAIN atStart.server[c] \subseteq DOMAIN server[c]

C15_FailureStep ==
  \A c \in Collections :
    /\ (outcome[c] = "none" /\ outcome'[c] = "err")
         => /\ store'[c] = store[c] /\ server'[c] = server[c]
            /\ phase = c /\ phase' # c
    /\ (outcome[c] = "err" /\ outcome'[c] = "err")
         => /\ frame'[c] = frame[c]
            /\ store'[c] = store[c] /\ server'[c] = server[c]
            /\ ReqsOf(c)' = ReqsOf(c)
            /\ AppliedLocally(c)' = AppliedLocally(c)

C15_NoRollback == [] C15_AppliedStays /\ [][C15_FailureStep]_vars

\* The task phase failed after one applied operation, with an entity left unprocessed,
\* and the run has gone on to its end.
C15_Witness ==
  /\ Returned /\ Failed("tasks")
  /\ frame["tasks"].synced_count = 1
  /\ \E o \in AppliedLocally("tasks") : o.op = "create" /\ o.id \in DOMAIN store["tasks"]
  /\ \/ frame["tasks"].remaining # {}
     \/ frame["tasks"].idx <= Len(RemoteList("tasks"))

(***************************************************************************)
(* C16: the errors list holds one string for each phase that failed and    *)
(* none for any other, in the order tasks, sessions, settings: at every    *)
(* moment of a run the list is the failed phases' strings in phase order,  *)
(* and every returned result has at most 3 errors, no string twice.        *)
(***************************************************************************)
ErrorsOf(failed) ==
  SelectSeq([k \in 1..3 |-> ErrorString(Phases[k])],
            LAMBDA e : \E p \in failed : e = ErrorString(p))

C16_ErrorsPerPhase ==
  /\ phase \notin {"idle"} =>
       acc.errors = ErrorsOf({ p \in DOMAIN outcome : outcome[p] = "err" })
  /\ Returned =>
       Last(results).errors = ErrorsOf({ p \in DOMAIN outcome : outcome[p] = "err" })
  /\ \A i \in DOMAIN results :
       /\ Len(results[i].errors) <= 3
       /\ \A j, k \in DOMAIN results[i].errors :
            j < k => results[i].errors[j] # results[i].errors[k]

\* All three phases failed: three strings, in phase order.
C16_Witness ==
  /\ Returned
  /\ Last(results).errors = << "Task sync error", "Session sync error", "Settings sync error" >>

(***************************************************************************)
(* C17: the phases of a run are strictly sequential: every request sent    *)
(* and every store statement executed belongs to the phase the run is in,  *)
(* is made when every earlier phase has returned and no later phase has    *)
(* started, and is the only call of its step; the run holds the store     *)
(* lock across steps only inside a local update.                           *)
(***************************************************************************)
PhaseIndex(p) == CHOOSE k \in 1..3 : Phases[k] = p
Running == phase \in {"tasks", "sessions", "settings"}

C17_OnePhaseAtATime ==
  /\ Running =>
       /\ \A k \in 1..3 :
            /\ k < PhaseIndex(phase) => outcome[Phases[k]] # "none"
            /\ k >= PhaseIndex(phase) => outcome[Phases[k]] = "none"
       /\ started = SubSeq(Phases, 1, PhaseIndex(phase))
  /\ (dbLock = "held" /\ ui.pc # "readback")
       => Running /\ phase \in Collections /\ pc = "readback"

C17_CallStep ==
  (Running /\ (reqs' # reqs \/ ops' # ops))
    => /\ BagCardinality(reqs') + BagCardinality(ops')
            = BagCardinality(reqs) + BagCardinality(ops) + 1
       /\ \A q \in BagToSet(reqs') : CopiesIn(q, reqs') # CopiesIn(q, reqs) => q.coll = phase
       /\ \A o \in BagToSet(ops') : CopiesIn(o, ops') # CopiesIn(o, ops) => o.coll = phase

C17_PhasesSequential == [] C17_OnePhaseAtATime /\ [][C17_CallStep]_vars

\* The settings phase sends its request after the task and session phases, which both
\* made calls of their own, have returned.
C17_Witness ==
  /\ phase = "settings" /\ pc = "apply"
  /\ outcome["tasks"] = "ok" /\ outcome["sessions"] = "ok"
  /\ \E q \in BagToSet(reqs) : q.coll = "tasks" /\ q.method = "POST"
  /\ \E o \in BagToSet(ops) : o.coll = "sessions"

(***************************************************************************)
(* C18: settings, remote absent: the settings phase reaches its upload     *)
(* only when the remote has no settings record; the upload is one POST     *)
(* carrying the local settings as get_settings reads them, changes nothing *)
(* locally and ends the phase; a settings phase that returned Ok after     *)
(* finding no remote record sent exactly that one write.                   *)
(***************************************************************************)
SettingsWrites == { q \in BagToSet(reqs) : q.coll = "settings" /\ q.method # "GET" }
SettingsOps == { o \in BagToSet(ops) : o.coll = "settings" }
PostOfSettings(rows) == Request("POST", "settings", Some(GetSettings(rows)))

C18_RemoteAbsentState ==
  /\ (phase = "settings" /\ pc = "post") => server.settings = None
  /\ (outcome["settings"] = "ok" /\ atStart.server.settings = None)
       => /\ SettingsWrites = {PostOfSettings(atStart.store.settings)}
          /\ CopiesIn(PostOfSettings(atStart.store.settings), reqs) = 1
          /\ SettingsOps = {}
          /\ store.settings = atStart.store.settings

C18_RemoteAbsentStep ==
  (phase = "settings" /\ pc = "post" /\ RunSteps)
    => /\ reqs' = reqs (+) SetToBag({PostOfSettings(store.settings)})
       /\ store' = store /\ ops' = ops
       /\ phase' = "ret"

C18_RemoteAbsent == [] C18_RemoteAbsentState /\ [][C18_RemoteAbsentStep]_vars

\* Non-default local settings were uploaded to a remote that had none.
C18_Witness ==
  /\ outcome["settings"] = "ok" /\ atStart.server.settings = None
  /\ GetSettings(store.settings) = SettingsB
  /\ CopiesIn(Request("POST", "settings", Some(SettingsB)), reqs) = 1

(***************************************************************************)
(* C19: settings, remote present: the settings phase applies the remote    *)
(* record to the local table whatever the table held; when the phase       *)
(* returns Ok the local settings read equal to the remote settings, no     *)
(* remote write was sent, the remote record is as it was, and the step     *)
(* leaves the conflicts count alone.                                       *)
(***************************************************************************)
C19_RemotePresentState ==
  (outcome["settings"] = "ok" /\ IsSome(atStart.server.settings))
    => /\ GetSettings(store.settings) = Unwrap(atStart.server.settings)
       /\ SettingsWrites = {}
       /\ server.settings = atStart.server.settings

C19_RemotePresentStep ==
  (phase = "settings" /\ pc = "apply" /\ RunSteps)
    => /\ reqs' = reqs /\ server' = server
       /\ acc'.conflicts = acc.conflicts
       /\ outcome'["settings"] = "ok" => GetSettings(store'.settings) = remote_settings

C19_RemotePresent == [] C19_RemotePresentState /\ [][C19_RemotePresentStep]_vars

\* Local settings that differed from the remote record now equal it.
C19_Witness ==
  /\ outcome["settings"] = "ok" /\ IsSome(atStart.server.settings)
  /\ GetSettings(atStart.store.settings) # Unwrap(atStart.server.settings)
  /\ GetSettings(store.settings) = SettingsB

(***************************************************************************)
(* C20: in a phase that returned Ok the synced count equals the number of  *)
(* entities of the collection the run created or updated on either side:   *)
(* the store statements it executed plus the remote writes it sent (all of *)
(* which succeeded); the returned result carries that count.               *)
(***************************************************************************)
WriteCount(c) ==
  BagCardinality([q \in { x \in BagToSet(reqs) : x.coll = c /\ x.method # "GET" } |-> reqs[q]])

C20_SyncedCountsWrites ==
  \A c \in Collections :
    outcome[c] = "ok" =>
      /\ frame[c].synced_count = Cardinality(AppliedLocally(c)) + WriteCount(c)
      /\ phase \in {"ret", "done"} => SyncedIn(acc, c) = frame[c].synced_count
      /\ Returned => SyncedIn(Last(results), c) = frame[c].synced_count

\* A returned run whose task phase made one local create and one remote update.
C20_Witness ==
  /\ Returned /\ Last(results).success
  /\ Last(results).synced_tasks = 2
  /\ \E o \in AppliedLocally("tasks") : o.op = "create"
  /\ \E q \in BagToSet(reqs) : q.coll = "tasks" /\ q.method = "PUT"

(***************************************************************************)
(* One pass of the reconciler as a function: sync_tasks or                 *)
(* sync_pomodoro_sessions run over the local rows, the remote list lst in  *)
(* the order given, and the hidden inputs (the next uuid and the clock).   *)
(***************************************************************************)
PassInit(rows, remote, hidden) ==
  [store |-> rows, server |-> remote, uuid |-> hidden.uuid, now |-> hidden.now,
   synced |-> 0, conflicts |-> 0, remaining |-> DOMAIN rows, blocked |-> FALSE]

\* One iteration of the loop over the remote list; an update_task call never returns.
PassItem(c, rows, r, st) ==
  IF r.id \in st.remaining
  THEN LET l == FromRow(c, rows[r.id])
       IN IF r.updated_at > l.updated_at
          THEN [st EXCEPT !.store = UpdateWhereId(@, c, r, st.now), !.blocked = TRUE]
          ELSE IF l.updated_at > r.updated_at
          THEN [st EXCEPT !.server = RemoteStore(@, l),
                          !.synced = @ + 1,
                          !.remaining = @ \ {r.id}]
          ELSE IF ContentDiffers(l, r)
          THEN [st EXCEPT !.conflicts = @ + 1,
                          !.store = UpdateWhereId(@, c, r, st.now),
                          !.blocked = TRUE]
          ELSE [st EXCEPT !.remaining = @ \ {r.id}]
  ELSE [st EXCEPT !.store = (st.uuid :> CreatedRow(c, r, st.uuid, st.now)) @@ @,
                  !.uuid = @ + 1,
                  !.now = @ + 1,
                  !.synced = @ + 1]

RECURSIVE PassLoop(_, _, _, _, _)
PassLoop(c, rows, lst, i, st) ==
  IF i > Len(lst) \/ st.blocked
  THEN st
  ELSE PassLoop(c, rows, lst, i + 1, PassItem(c, rows, lst[i], st))

\* The upload of every local entity left in the map.
PassUpload(c, rows, st) ==
  [st EXCEPT !.server = [id \in DOMAIN st.server \cup st.remaining |->
                           IF id \in st.remaining THEN FromRow(c, rows[id]) ELSE st.server[id]],
             !.synced = @ + Cardinality(st.remaining),
             !.remaining = {}]

PassResult(c, rows, remote, lst, hidden) ==
  LET st == PassLoop(c, rows, lst, 1, PassInit(rows, remote, hidden))
  IN IF st.blocked THEN st ELSE PassUpload(c, rows, st)

\* The hidden inputs phase c of the current run started with.
CreatedBefore(c) == IF c = "sessions" THEN Cardinality(AppliedLocally("tasks")) ELSE 0
HiddenAtPhase(c) ==
  [uuid |-> atStart.nextUuid + CreatedBefore(c), now |-> atStart.now + CreatedBefore(c)]

\* A pass agrees with what phase c of the current run left.
SameAsRun(c, res) ==
  /\ ~res.blocked
  /\ res.synced = frame[c].synced_count
  /\ res.conflicts = frame[c].conflicts
  /\ res.store = store[c]
  /\ res.server = server[c]

InOrder(c, o) == [i \in DOMAIN o |-> RemoteOf(c, o[i])]

(***************************************************************************)
(* C21: order insensitivity: when a phase returned Ok (and no other actor  *)
(* wrote), a pass over the same snapshots gives the same synced count,     *)
(* conflict count, local table and remote collection in every order of the *)
(* remote entities.                                                        *)
(***************************************************************************)
C21_OrderInsensitive ==
  \A c \in Collections :
    (outcome[c] = "ok" /\ ui = UiIdle(0))
      => \A o \in Orders(RemoteIds(c)) :
           SameAsRun(c, PassResult(c, atStart.store[c], atStart.server[c],
                                   InOrder(c, o), HiddenAtPhase(c)))

(***************************************************************************)
(* C22: updated_at never decreases: no step leaves the local row of an     *)
(* entity with an updated_at lower than the row had before the step, and   *)
(* every PUT carries an updated_at at least that of the remote copy it     *)
(* replaces.                                                               *)
(***************************************************************************)
NewRequests == { q \in BagToSet(reqs') : CopiesIn(q, reqs') > CopiesIn(q, reqs) }

C22_LocalStep ==
  \A c \in Collections : \A id \in DOMAIN store[c] \cap DOMAIN store'[c] :
    store'[c][id].updated_at >= store[c][id].updated_at

C22_RemoteStep ==
  \A q \in NewRequests :
    (q.method = "PUT" /\ q.coll \in Collections)
      => \A id \in DOMAIN server[q.coll] :
           id = Unwrap(q.body).id => Unwrap(q.body).updated_at >= server[q.coll][id].updated_at

C22_UpdatedAtMonotone == [][C22_LocalStep /\ C22_RemoteStep]_vars

(***************************************************************************)
(* C23: the reconciler is a function of its two snapshots alone: a pass    *)
(* from the same local table and the same remote list leaves the same      *)
(* counts, local table and remote collection whatever the clock reads and  *)
(* whatever uuid the generator gives next.                                 *)
(***************************************************************************)
\* The hidden inputs of the run, and those of a run started one tick later.
HiddenInputs(c) ==
  { HiddenAtPhase(c),
    [uuid |-> HiddenAtPhase(c).uuid + 1, now |-> HiddenAtPhase(c).now + 1] }

C23_PureFunction ==
  \A c \in Collections :
    (outcome[c] = "ok" /\ ui = UiIdle(0))
      => \A h \in HiddenInputs(c) :
           SameAsRun(c, PassResult(c, atStart.store[c], atStart.server[c], RemoteList(c), h))

(***************************************************************************)
(* C24: the store serializes its callers: at any moment at most one        *)
(* StorageManager operation, of the sync run or of a UI command, holds the *)
(* database connection; the connection is held exactly when one does, and  *)
(* no statement changes the store while another operation holds it.        *)
(***************************************************************************)
\* The callers that have taken the lock on the connection and not yet dropped the guard.
Holders ==
  (IF phase \in Collections /\ pc = "readback" THEN {"sync"} ELSE {})
    \cup (IF ui.pc = "readback" THEN {"ui"} ELSE {})

C24_OneHolder ==
  /\ Cardinality(Holders) <= 1
  /\ dbLock = "held" <=> Holders # {}

C24_WriteNeedsLock == store' # store => dbLock = "free"

C24_Serialized == [] C24_OneHolder /\ [][C24_WriteNeedsLock]_vars

\* The UI command holds the connection while the run waits for it in get_all_tasks.
C24_Witness ==
  /\ Holders = {"ui"}
  /\ phase = "tasks" /\ pc = "list"

(***************************************************************************)
(* C25: snapshot-then-apply race: when the UI has updated a task after the *)
(* run read its local snapshot and the run reaches the iteration that      *)
(* needs a local update of the same id, the run applies that update (on    *)
(* the basis of the stale snapshot, over the UI's write).                  *)
(***************************************************************************)
\* The UI's update_task wrote task id after the snapshot; the run is at the iteration for id.
RacedOn(id) ==
  /\ AtItem("tasks") /\ Cur("tasks").id = id
  /\ id \in DOMAIN LocalSnap("tasks") /\ id \in DOMAIN store.tasks
  /\ ui.task_id = id
  /\ store.tasks[id].title = Unwrap(UiUpdates.title)
  /\ LocalSnap("tasks")[id].title # Unwrap(UiUpdates.title)
  /\ RemoteNewer("tasks", id) \/ TrueConflict("tasks", id)

C25_StaleUpdateApplied ==
  \A id \in Ids : RacedOn(id) => ENABLED SyncTasksReconcile

(***************************************************************************)
(* C26: an update_task call on an id with no row fails with an error: once *)
(* its UPDATE has matched no row, the call goes on to return (its "not     *)
(* found after update" error), having created no row.                      *)
(***************************************************************************)
\* update_task(id) has executed its UPDATE and the table has no row for id.
UpdatedMissing(id) ==
  /\ ui.pc = "readback" /\ ui.task_id = id
  /\ id \notin DOMAIN store.tasks

C26_MissingRowIsError ==
  \A id \in Ids : UpdatedMissing(id) => ENABLED UiUpdateTask

(***************************************************************************)
(* C27: a remote call of a phase that fails (a non-2xx response) aborts    *)
(* the phase and adds exactly one entry, the phase's, to the errors of the *)
(* run; nothing is retried: the phase is left, and within one run every    *)
(* remote request is sent at most once.                                    *)
(***************************************************************************)
C27_SentOnce == \A q \in BagToSet(reqs) : CopiesIn(q, reqs) = 1

\* A step of phase p in which a remote request was sent and failed.
RemoteCallFails(p) == phase = p /\ reqs' # reqs /\ faultsLeft' < faultsLeft

C27_FailedCallStep ==
  \A p \in DOMAIN outcome :
    RemoteCallFails(p)
      => /\ outcome'[p] = "err"
         /\ acc'.errors = Append(acc.errors, ErrorString(p))
         /\ phase' # p

C27_FailedCallAbortsNoRetry == [] C27_SentOnce /\ [][C27_FailedCallStep]_vars

\* A returned run whose only error is that of the task phase, whose PUT failed.
C27_Witness ==
  /\ Returned /\ Last(results).errors = << ErrorString("tasks") >>
  /\ \E q \in BagToSet(reqs) : q.coll = "tasks" /\ q.method = "PUT"
  /\ server.tasks = atStart.server.tasks

(***************************************************************************)
(* C28: the conflicts of a SyncResult are the conflicts returned by the    *)
(* task phase plus those returned by the session phase; a phase that       *)
(* failed contributes 0 to the conflicts and 0 to its synced count, and    *)
(* the settings phase changes no count.                                    *)
(***************************************************************************)
\* What phase c contributes to a count: the count it returned, if it returned Ok.
ConflictsFrom(c) == IF outcome[c] = "ok" THEN frame[c].conflicts ELSE 0
SyncedFrom(c) == IF outcome[c] = "ok" THEN frame[c].synced_count ELSE 0

C28_ConflictsAreSummed ==
  /\ \A x, y \in 0..NumIds :
       /\ AddCounts(AddCounts(NoAcc, "tasks", y, x), "sessions", x, y).conflicts = x + y
       /\ AddCounts(AddCounts(NoAcc, "tasks", y, x), "settings", x, y)
            = AddCounts(NoAcc, "tasks", y, x)
  /\ Returned =>
       /\ Last(results).conflicts = ConflictsFrom("tasks") + ConflictsFrom("sessions")
       /\ \A c \in Collections : SyncedIn(Last(results), c) = SyncedFrom(c)

\* A returned run whose task phase counted a conflict and then failed, while its session
\* phase returned Ok with an entity synced: the result carries 0 conflicts.
C28_Witness ==
  /\ Returned
  /\ Failed("tasks") /\ frame["tasks"].conflicts = 1
  /\ outcome["sessions"] = "ok" /\ frame["sessions"].synced_count = 1
  /\ Last(results).conflicts = 0 /\ Last(results).synced_tasks = 0
  /\ Last(results).synced_sessions = 1

(***************************************************************************)
(* C29: sync_data never returns Err: every return of the call hands back   *)
(* one SyncResult, whatever the phases raised, with one entry in errors    *)
(* for each phase that failed; a run that has been through its three       *)
(* phases can always return.                                               *)
(***************************************************************************)
FailedPhases == { p \in DOMAIN outcome : outcome[p] = "err" }

C29_ReturnStep ==
  (phase # "done" /\ phase' = "done")
    => /\ Len(results') = Len(results) + 1
       /\ Last(results').errors = ErrorsOf(FailedPhases)
       /\ Last(results').success <=> FailedPhases = {}

C29_CanReturn == phase = "ret" => ENABLED SyncDataReturn

C29_AlwaysOk == [] C29_CanReturn /\ [][C29_ReturnStep]_vars

\* A run in which all three phases failed has returned its SyncResult.
C29_Witness ==
  /\ Returned
  /\ FailedPhases = {"tasks", "sessions", "settings"}
  /\ Len(Last(results).errors) = Len(Phases)
  /\ ~Last(results).success

(***************************************************************************)
(* C30: when the initial read of a phase fails (the read of the local      *)
(* collection, the remote GET or the parse of its payload) the phase ends  *)
(* in error having issued no store statement and no remote write: both     *)
(* sides of the collection are as the phase found them.                    *)
(***************************************************************************)
\* A step in which a call of the initial reads of phase p fails.
InitialReadFails(p) == phase = p /\ pc \in {"list", "fetch"} /\ faultsLeft' < faultsLeft

C30_FailedReadStep ==
  \A p \in DOMAIN outcome :
    InitialReadFails(p)
      => /\ outcome'[p] = "err" /\ phase' # p
         /\ store' = store /\ server' = server /\ ops' = ops
         /\ \A q \in BagToSet(reqs') : q.coll = p => q.method = "GET"

\* Phase c failed before its loop: the remote list was never fetched.
FailedAtRead(c) ==
  Failed(c) /\ frame[c].remote_list = << >> /\ frame[c].remaining = {}

C30_FailedReadState ==
  /\ \A c \in Collections :
       FailedAtRead(c)
         => /\ store[c] = atStart.store[c] /\ server[c] = atStart.server[c]
            /\ \A q \in BagToSet(reqs) : q.coll = c => q.method = "GET"
            /\ \A o \in BagToSet(ops) : o.coll # c
  /\ (Failed("settings") /\ SettingsOps = {} /\ SettingsWrites = {})
       => store.settings = atStart.store.settings /\ server.settings = atStart.server.settings

C30_FailedReadWritesNothing == [] C30_FailedReadState /\ [][C30_FailedReadStep]_vars

\* The GET of the task phase failed although both sides held tasks needing work.
C30_Witness ==
  /\ FailedAtRead("tasks") /\ phase # "tasks"
  /\ \E q \in BagToSet(reqs) : q.coll = "tasks" /\ q.method = "GET"
  /\ DOMAIN LocalSnap("tasks") # {} /\ DOMAIN server.tasks # {}
  /\ Snapshot("tasks") # server.tasks
  /\ store.tasks = atStart.store.tasks /\ server.tasks = atStart.server.tasks

(***************************************************************************)
(* C31: a successful list response without the collection's key is read as *)
(* an empty remote collection: the phase executes no store statement,      *)
(* sends one POST for each local entity and nothing else, and returns      *)
(* synced = the number of local entities and conflicts = 0.                *)
(***************************************************************************)
NoKey(c) == server.shape[c] = "nokey"

C31_MissingKeyIsEmpty ==
  \A c \in Collections :
    (NoKey(c) /\ Fetched(c))
      => /\ RemoteList(c) = << >>
         /\ \A o \in BagToSet(ops) : o.coll # c
         /\ \A q \in BagToSet(reqs) :
              (q.coll = c /\ q.method # "GET")
                => /\ q.method = "POST"
                   /\ Unwrap(q.body).id \in DOMAIN LocalSnap(c)
                   /\ q = PostOf(c, Unwrap(q.body).id)
                   /\ CopiesIn(q, reqs) = 1
         /\ outcome[c] = "ok"
              => /\ \A id \in DOMAIN LocalSnap(c) : BagIn(PostOf(c, id), reqs)
                 /\ frame[c].synced_count = Cardinality(DOMAIN LocalSnap(c))
                 /\ frame[c].conflicts = 0
                 /\ Returned => SyncedIn(Last(results), c) = Cardinality(DOMAIN LocalSnap(c))

\* The service held tasks, answered without the key, and both local tasks were uploaded.
C31_Witness ==
  /\ NoKey("tasks") /\ outcome["tasks"] = "ok"
  /\ DOMAIN atStart.server.tasks # {}
  /\ Cardinality(DOMAIN LocalSnap("tasks")) = NumIds
  /\ frame["tasks"].synced_count = NumIds

(***************************************************************************)
(* C32: when the remote list carries an id more than once, only the first  *)
(* occurrence is reconciled against the local entity; every later          *)
(* occurrence finds no entry in the map of local entities and is handled   *)
(* as remote-only: one more local create, one more added to synced.        *)
(***************************************************************************)
Occurrences(c, id) ==
  Cardinality({ i \in DOMAIN RemoteList(c) : RemoteList(c)[i].id = id })

\* The iteration about to run handles an id that an earlier iteration handled.
SeenBefore(c) ==
  /\ AtItem(c)
  /\ \E j \in 1..(frame[c].idx - 1) : RemoteList(c)[j].id = Cur(c).id

C32_LaterOccurrenceStep ==
  \A c \in Collections :
    (SeenBefore(c) /\ frame'[c] # frame[c])
      => /\ Cur(c).id \notin frame[c].remaining
         /\ frame'[c].synced_count = frame[c].synced_count + 1
         /\ ops' = Executed([op |-> "create", coll |-> c, id |-> nextUuid, src |-> Cur(c).id])
         /\ DOMAIN store'[c] = DOMAIN store[c] \cup {nextUuid}
         /\ reqs' = reqs

C32_CreatesPerId ==
  \A c \in Collections :
    outcome[c] = "ok" =>
      \A id \in RemoteIds(c) :
        /\ Cardinality(CreatesFor(c, id))
             = Occurrences(c, id) - (IF id \in DOMAIN LocalSnap(c) THEN 1 ELSE 0)
        /\ \A q \in WritesAbout(c, id) : CopiesIn(q, reqs) = 1

C32_RepeatedIdIsCreated == [] C32_CreatesPerId /\ [][C32_LaterOccurrenceStep]_vars

\* A session on both sides, the local one newer, listed twice: one PUT, then one create.
C32_Witness ==
  /\ outcome["sessions"] = "ok"
  /\ Occurrences("sessions", 1) = 2 /\ 1 \in DOMAIN LocalSnap("sessions")
  /\ BagIn(PutOf("sessions", 1), reqs)
  /\ Cardinality(CreatesFor("sessions", 1)) = 1
  /\ frame["sessions"].synced_count = 2

(***************************************************************************)
(* C33: the store lock is always released again: a caller that holds it    *)
(* inside update_task or update_pomodoro_session can take the step that    *)
(* ends the call and drops the lock.                                       *)
(***************************************************************************)
C33_LockReleased ==
  \A h \in Holders :
    IF h = "ui" THEN ENABLED UiUpdateTask ELSE ENABLED SyncStep

(***************************************************************************)
(* C34: enum values round-trip through the store: a row written by the     *)
(* run's update_task reads back with the status that was written, and a    *)
(* row written by create_pomodoro_session reads back with the session type *)
(* that was written.                                                       *)
(***************************************************************************)
C34_EnumsRoundTrip ==
  /\ \A o \in AppliedLocally("tasks") :
       (o.op = "update" /\ o.id \in DOMAIN store.tasks)
         => TaskFromRow(store.tasks[o.id]).status = RemoteOf("tasks", o.src).status
  /\ \A o \in AppliedLocally("sessions") :
       (o.op = "create" /\ o.id \in DOMAIN store.sessions)
         => SessionFromRow(store.sessions[o.id]).session_type
              = RemoteOf("sessions", o.src).session_type

(***************************************************************************)
(* C35: update_task changes only the row of the id it is given, and in it  *)
(* only the fields the request gives as Some, plus updated_at: a field     *)
(* given as None keeps its stored value, id and created_at stay, no other  *)
(* row and no other table changes, and no row appears or disappears.       *)
(***************************************************************************)
NewOps == { o \in BagToSet(ops') : CopiesIn(o, ops') > CopiesIn(o, ops) }

\* The step executes the UPDATE of update_task(id, request).
UpdateTaskFrame(id, request) ==
  /\ DOMAIN store'.tasks = DOMAIN store.tasks
  /\ \A other \in DOMAIN store.tasks \ {id} : store'.tasks[other] = store.tasks[other]
  /\ store'.sessions = store.sessions /\ store'.settings = store.settings
  /\ id \in DOMAIN store.tasks =>
       LET old == store.tasks[id]
           new == store'.tasks[id]
       IN /\ new.id = old.id /\ new.created_at = old.created_at
          /\ new.updated_at = now
          /\ \A f \in DOMAIN request : request[f] = None => new[f] = old[f]
          /\ IsSome(request.title) => new.title = Unwrap(request.title)
          /\ IsSome(request.description) => new.description = request.description
          /\ IsSome(request.completed_pomodoros)
               => new.completed_pomodoros = Unwrap(request.completed_pomodoros)

C35_UpdateStep ==
  /\ ui.left' < ui.left => UpdateTaskFrame(ui'.task_id, UiUpdates)
  /\ \A o \in NewOps :
       (o.coll = "tasks" /\ o.op = "update")
         => UpdateTaskFrame(o.id, UpdateTaskRequestOf(Cur("tasks")))

C35_OnlyGivenFields == [][C35_UpdateStep]_vars

\* The run updated a task from a remote task without description: the stored one stayed.
C35_Witness ==
  \E id \in Ids :
    /\ UpdateDone("tasks", id)
    /\ id \in DOMAIN store.tasks /\ id \in DOMAIN atStart.store.tasks
    /\ RemoteOf("tasks", id).description = None
    /\ IsSome(store.tasks[id].description)
    /\ store.tasks[id].title = RemoteOf("tasks", id).title
    /\ atStart.store.tasks[id].title # RemoteOf("tasks", id).title

(***************************************************************************)
(* C36: a scheduled notification that a cancel call (cancel_notification,  *)
(* cancel_all_notifications_for_task, cancel_all_notifications_for_session *)
(* or clear_all_scheduled_notifications) took out of the map before its    *)
(* delivery task woke is never delivered, whatever the interleaving of the *)
(* calls and the tasks: it has not been shown and its task is not about to *)
(* show it.                                                                *)
(***************************************************************************)
C36_CancelledNeverDelivered ==
  \A id \in cancelled : shown[id] = 0 /\ delivery[id] # "deliver"

\* With an app handle, a cancelled notification's task has woken and ended, while another
\* notification was delivered.
C36_Witness ==
  /\ app_handle
  /\ \E id \in cancelled : delivery[id] = "done" /\ shown[id] = 0
  /\ \E id \in NotificationIds : shown[id] = 1

(***************************************************************************)
(* C37: each scheduled notification is delivered at most once; once its    *)
(* delivery task has run, its id is no longer in the map; and a step of    *)
(* the delivery task of one notification removes no other notification's   *)
(* entry.                                                                  *)
(***************************************************************************)
Ran(id) == delivery[id] \in {"deliver", "done"}

C37_AfterRun ==
  \A id \in NotificationIds :
    /\ shown[id] <= 1
    /\ Ran(id) => id \notin DOMAIN scheduled_notifications

C37_TaskStep ==
  \A id \in NotificationIds :
    (delivery[id] \in {"sleeping", "deliver"} /\ delivery'[id] # delivery[id]) =>
      /\ \A other \in DOMAIN scheduled_notifications \ {id} :
           /\ other \in DOMAIN scheduled_notifications'
           /\ scheduled_notifications'[other] = scheduled_notifications[other]
      /\ \A other \in NotificationIds \ {id} :
           shown'[other] = shown[other] /\ delivery'[other] = delivery[other]
      /\ shown'[id] = 1 => shown[id] = 0 /\ delivery[id] = "deliver"

C37_DeliveredAtMostOnce == []C37_AfterRun /\ [][C37_TaskStep]_vars

\* One notification was delivered and its task ended while another is still scheduled.
C37_Witness ==
  \E id \in NotificationIds :
    /\ shown[id] = 1 /\ delivery[id] = "done"
    /\ \E other \in DOMAIN scheduled_notifications :
         other # id /\ delivery[other] = "sleeping"

(***************************************************************************)
(* C38: for every u32 duration_minutes, create_pomodoro_session returns    *)
(* and stores remaining_seconds = duration_minutes * 60, the product       *)
(* taken without 32-bit overflow: no call ends in a panic, and every       *)
(* session row a call created holds the exact product.                     *)
(***************************************************************************)
C38_RemainingIsProduct ==
  /\ pc # "panicked"
  /\ \A o \in BagToSet(ops) :
       (o.coll = "sessions" /\ o.op = "create") =>
         LET row == store.sessions[o.id]
         IN /\ ~MulOverflows(row.duration_minutes, 60)
            /\ row.remaining_seconds = row.duration_minutes * 60

====
